---- MODULE Spec2Model ----
(***************************************************************************)
(* TreeWalkViz: the execution-step model, the traversal generators, the    *)
(* state manager and the execution engine, as a state machine.             *)
(*                                                                         *)
(* Encoding of JavaScript values:                                          *)
(*   - a tree is <<>> (null) or <<value, left, right>> (a TreeNode; the    *)
(*     render coordinates x, y are never read by the modelled code);       *)
(*   - a nullable slot (step.nodeValue, frame.nodeValue, _playIntervalId)  *)
(*     is <<>> for null and <<v>> for the value v;                         *)
(*   - a Map is a function whose DOMAIN is its key set;                    *)
(*   - arrays are sequences, so JS index i is TLA+ index i + 1;            *)
(*   - the description string of a step is presentation text computed from *)
(*     type and nodeValue and read by no modelled code; it is left out.    *)
(***************************************************************************)
EXTENDS Integers, Sequences, FiniteSets, TLC

\* ------------------------------------------------------------------------
\* Bounds of the model
\* ------------------------------------------------------------------------
MaxDepth == 2          \* depth of the trees handed to the generators
MaxValue == 2          \* node values of those trees are 1..MaxValue
MaxControls == 2       \* play, pause and setSpeed calls per behaviour
MaxUndo == 3           \* longest forward-then-backward round trip checked
MaxHistory == 3        \* snapshots pushed on a state manager driven directly
MaxHeap == 26          \* objects allocated by a state manager and its caller
MaxPush == 1           \* elements a caller pushes on an array it holds
MaxSubscribers == 3    \* subscribe calls made on one state manager
MaxFrames == 4         \* push calls made on one stack renderer

\* ------------------------------------------------------------------------
\* Trees (tree-model.js)
\* ------------------------------------------------------------------------
NullTree == <<>>

TreeNode(value, left, right) == <<value, left, right>>

createDefaultTree ==
    TreeNode(4,
        TreeNode(2, TreeNode(1, NullTree, NullTree), TreeNode(3, NullTree, NullTree)),
        TreeNode(6, TreeNode(5, NullTree, NullTree), TreeNode(7, NullTree, NullTree)))

RECURSIVE getAllNodes(_)
getAllNodes(root) ==
    IF root = NullTree THEN <<>>
    ELSE <<root>> \o getAllNodes(root[2]) \o getAllNodes(root[3])

RECURSIVE countNodes(_)
countNodes(root) ==
    IF root = NullTree THEN 0
    ELSE 1 + countNodes(root[2]) + countNodes(root[3])

RECURSIVE findNode(_, _)
findNode(root, value) ==
    IF root = NullTree THEN NullTree
    ELSE IF root[1] = value THEN root
    ELSE IF findNode(root[2], value) # NullTree THEN findNode(root[2], value)
    ELSE findNode(root[3], value)

RECURSIVE getTreeDepth(_)
getTreeDepth(root) ==
    IF root = NullTree THEN 0
    ELSE LET l == getTreeDepth(root[2])
             r == getTreeDepth(root[3])
         IN  1 + (IF l >= r THEN l ELSE r)

\* A node object is named by its place in the tree: the path of "left" and
\* "right" links that leads to it from the root.  traverse(node) of
\* getAllEdges, for the node at path
RECURSIVE EdgesFrom(_, _)
EdgesFrom(node, path) ==
    IF node = NullTree THEN <<>>
    ELSE (IF node[2] # NullTree
          THEN <<[parent |-> path, child |-> Append(path, "left")]>>
               \o EdgesFrom(node[2], Append(path, "left"))
          ELSE <<>>)
         \o
         (IF node[3] # NullTree
          THEN <<[parent |-> path, child |-> Append(path, "right")]>>
               \o EdgesFrom(node[3], Append(path, "right"))
          ELSE <<>>)

\* mutant: the right child links are not recorded
getAllEdgesLeftOnly(root) ==
    SelectSeq(EdgesFrom(root, <<>>),
              LAMBDA e : e.child[Len(e.child)] = "left")

getAllEdges(root) == EdgesFrom(root, <<>>)

\* the trees of depth at most d with values in 1..MaxValue
RECURSIVE TreesOfDepth(_)
TreesOfDepth(d) ==
    IF d = 0 THEN {NullTree}
    ELSE LET sub == TreesOfDepth(d - 1)
         IN  {NullTree} \cup
             {TreeNode(v, l, r) : v \in 1..MaxValue, l \in sub, r \in sub}

\* ------------------------------------------------------------------------
\* Execution step model (execution-step.js)
\* ------------------------------------------------------------------------
NullValue == <<>>

StepType == [CALL |-> "CALL", CHECK_NULL |-> "CHECK_NULL",
             PROCESS_NODE |-> "PROCESS_NODE", RECURSE_LEFT |-> "RECURSE_LEFT",
             RECURSE_RIGHT |-> "RECURSE_RIGHT", RETURN |-> "RETURN"]

NodeState == [UNVISITED |-> "unvisited", PROCESSING |-> "processing",
              VISITED |-> "visited", FINISHED |-> "finished"]

StackAction == [PUSH |-> "push", POP |-> "pop", NONE |-> "none"]

ExecutionStep(type, nodeValue, codeLine, stackAction, nodeState) ==
    [type |-> type, nodeValue |-> nodeValue, codeLine |-> codeLine,
     stackAction |-> stackAction, nodeState |-> nodeState]

StepCall(nodeValue, codeLine) ==
    ExecutionStep(StepType.CALL, nodeValue, codeLine, StackAction.PUSH,
        IF nodeValue # NullValue THEN NodeState.PROCESSING ELSE NodeState.UNVISITED)

\* mutant: the null check is typed as a CALL
StepCheckNullAsCall(nodeValue, codeLine) ==
    ExecutionStep(StepType.CALL, nodeValue, codeLine, StackAction.NONE,
        IF nodeValue # NullValue THEN NodeState.PROCESSING ELSE NodeState.UNVISITED)

StepCheckNull(nodeValue, codeLine) ==
    ExecutionStep(StepType.CHECK_NULL, nodeValue, codeLine, StackAction.NONE,
        IF nodeValue # NullValue THEN NodeState.PROCESSING ELSE NodeState.UNVISITED)

StepProcessNode(nodeValue, codeLine) ==
    ExecutionStep(StepType.PROCESS_NODE, nodeValue, codeLine, StackAction.NONE,
        NodeState.VISITED)

\* mutant: the recurse-left marker already pushes the frame of the call
StepRecurseLeftPushes(nodeValue, codeLine) ==
    ExecutionStep(StepType.RECURSE_LEFT, nodeValue, codeLine, StackAction.PUSH,
        NodeState.PROCESSING)

StepRecurseLeft(nodeValue, codeLine) ==
    ExecutionStep(StepType.RECURSE_LEFT, nodeValue, codeLine, StackAction.NONE,
        NodeState.PROCESSING)

\* mutant: the step marks its node as unvisited
StepRecurseRightUnvisited(nodeValue, codeLine) ==
    ExecutionStep(StepType.RECURSE_RIGHT, nodeValue, codeLine, StackAction.NONE,
        NodeState.UNVISITED)

StepRecurseRight(nodeValue, codeLine) ==
    ExecutionStep(StepType.RECURSE_RIGHT, nodeValue, codeLine, StackAction.NONE,
        NodeState.PROCESSING)

\* mutant: a RETURN step that leaves the stack alone
StepReturnNoPop(nodeValue, codeLine, isNullReturn) ==
    ExecutionStep(StepType.RETURN, nodeValue, codeLine, StackAction.NONE,
        IF isNullReturn THEN NodeState.UNVISITED ELSE NodeState.FINISHED)

StepReturn(nodeValue, codeLine, isNullReturn) ==
    ExecutionStep(StepType.RETURN, nodeValue, codeLine, StackAction.POP,
        IF isNullReturn THEN NodeState.UNVISITED ELSE NodeState.FINISHED)

\* mutant: the frame does not carry the node value of the call
StackFrameNoValue(functionName, nodeValue, codeLine) ==
    [functionName |-> functionName, nodeValue |-> NullValue,
     returnAddress |-> <<"line ", codeLine>>]

\* `line ${codeLine}`
StackFrame(functionName, nodeValue, codeLine) ==
    [functionName |-> functionName, nodeValue |-> nodeValue,
     returnAddress |-> <<"line ", codeLine>>]

\* ------------------------------------------------------------------------
\* Traversal generators (execution-engine.js, TRAVERSAL GENERATORS)
\* ------------------------------------------------------------------------
INORDER_LINES == [FUNCTION_ENTRY |-> 1, NULL_CHECK |-> 2, RECURSE_LEFT |-> 3,
                  PROCESS |-> 4, RECURSE_RIGHT |-> 5, FUNCTION_EXIT |-> 6]

\* mutant: the preorder table is a copy of the inorder table
PREORDER_LINES_AsInorder ==
    [FUNCTION_ENTRY |-> 1, NULL_CHECK |-> 2, RECURSE_LEFT |-> 3,
     PROCESS |-> 4, RECURSE_RIGHT |-> 5, FUNCTION_EXIT |-> 6]

PREORDER_LINES == [FUNCTION_ENTRY |-> 1, NULL_CHECK |-> 2, PROCESS |-> 3,
                   RECURSE_LEFT |-> 4, RECURSE_RIGHT |-> 5, FUNCTION_EXIT |-> 6]

POSTORDER_LINES == [FUNCTION_ENTRY |-> 1, NULL_CHECK |-> 2, RECURSE_LEFT |-> 3,
                    RECURSE_RIGHT |-> 4, PROCESS |-> 5, FUNCTION_EXIT |-> 6]

NodeValueOf(node) == IF node # NullTree THEN <<node[1]>> ELSE NullValue

RECURSIVE InorderTraverse(_)
InorderTraverse(node) ==
    LET nodeValue == NodeValueOf(node)
        entry == << StepCall(nodeValue, INORDER_LINES.FUNCTION_ENTRY),
                    StepCheckNull(nodeValue, INORDER_LINES.NULL_CHECK) >>
    IN  IF node = NullTree
        THEN entry \o << StepReturn(NullValue, INORDER_LINES.NULL_CHECK, TRUE) >>
        ELSE entry
             \o << StepRecurseLeft(nodeValue, INORDER_LINES.RECURSE_LEFT) >>
             \o InorderTraverse(node[2])
             \o << StepProcessNode(nodeValue, INORDER_LINES.PROCESS) >>
             \o << StepRecurseRight(nodeValue, INORDER_LINES.RECURSE_RIGHT) >>
             \o InorderTraverse(node[3])
             \o << StepReturn(nodeValue, INORDER_LINES.FUNCTION_EXIT, FALSE) >>

RECURSIVE PreorderTraverse(_)
PreorderTraverse(node) ==
    LET nodeValue == NodeValueOf(node)
        entry == << StepCall(nodeValue, PREORDER_LINES.FUNCTION_ENTRY),
                    StepCheckNull(nodeValue, PREORDER_LINES.NULL_CHECK) >>
    IN  IF node = NullTree
        THEN entry \o << StepReturn(NullValue, PREORDER_LINES.NULL_CHECK, TRUE) >>
        ELSE entry
             \o << StepProcessNode(nodeValue, PREORDER_LINES.PROCESS) >>
             \o << StepRecurseLeft(nodeValue, PREORDER_LINES.RECURSE_LEFT) >>
             \o PreorderTraverse(node[2])
             \o << StepRecurseRight(nodeValue, PREORDER_LINES.RECURSE_RIGHT) >>
             \o PreorderTraverse(node[3])
             \o << StepReturn(nodeValue, PREORDER_LINES.FUNCTION_EXIT, FALSE) >>

RECURSIVE PostorderTraverse(_)
PostorderTraverse(node) ==
    LET nodeValue == NodeValueOf(node)
        entry == << StepCall(nodeValue, POSTORDER_LINES.FUNCTION_ENTRY),
                    StepCheckNull(nodeValue, POSTORDER_LINES.NULL_CHECK) >>
    IN  IF node = NullTree
        THEN entry \o << StepReturn(NullValue, POSTORDER_LINES.NULL_CHECK, TRUE) >>
        ELSE entry
             \o << StepRecurseLeft(nodeValue, POSTORDER_LINES.RECURSE_LEFT) >>
             \o PostorderTraverse(node[2])
             \o << StepRecurseRight(nodeValue, POSTORDER_LINES.RECURSE_RIGHT) >>
             \o PostorderTraverse(node[3])
             \o << StepProcessNode(nodeValue, POSTORDER_LINES.PROCESS) >>
             \o << StepReturn(nodeValue, POSTORDER_LINES.FUNCTION_EXIT, FALSE) >>

\* getTraversalGenerator(type).generateSteps(root)
generateSteps(type, root) ==
    CASE type = "preorder" -> PreorderTraverse(root)
      [] type = "postorder" -> PostorderTraverse(root)
      [] OTHER -> InorderTraverse(root)

\* ------------------------------------------------------------------------
\* State manager (execution-engine.js, STATE MANAGER)
\* A manager is [state, history, subscribers, delivered]: _state, _history,
\* _subscribers, and the callback invocations made so far in the running
\* operation, each <<callback, state passed to it>>.
\* ------------------------------------------------------------------------
DefaultSpeed == 500

createInitialState ==
    [currentStepIndex |-> -1,
     callStack |-> <<>>,
     nodeStates |-> <<>>,
     highlightedLine |-> 0,
     traversalType |-> "inorder",
     isPlaying |-> FALSE,
     animationSpeed |-> DefaultSpeed,
     traversalOutput |-> <<>>]

StateFields == DOMAIN createInitialState

\* mutant: the copy of a frame loses the node value
CopyFrameNoValue(frame) ==
    [functionName |-> frame.functionName, nodeValue |-> NullValue,
     returnAddress |-> frame.returnAddress]

\* { ...frame }
CopyFrame(frame) ==
    [functionName |-> frame.functionName, nodeValue |-> frame.nodeValue,
     returnAddress |-> frame.returnAddress]

\* new Map(m)
CopyMap(m) == [k \in DOMAIN m |-> m[k]]

\* mutant: a clone that forgets the traversal output
cloneStateNoOutput(state) ==
    [currentStepIndex |-> state.currentStepIndex,
     callStack |-> [i \in 1..Len(state.callStack) |-> CopyFrame(state.callStack[i])],
     nodeStates |-> CopyMap(state.nodeStates),
     highlightedLine |-> state.highlightedLine,
     traversalType |-> state.traversalType,
     isPlaying |-> state.isPlaying,
     animationSpeed |-> state.animationSpeed,
     traversalOutput |-> <<>>]

cloneState(state) ==
    [currentStepIndex |-> state.currentStepIndex,
     callStack |-> [i \in 1..Len(state.callStack) |-> CopyFrame(state.callStack[i])],
     nodeStates |-> CopyMap(state.nodeStates),
     highlightedLine |-> state.highlightedLine,
     traversalType |-> state.traversalType,
     isPlaying |-> state.isPlaying,
     animationSpeed |-> state.animationSpeed,
     traversalOutput |-> [i \in 1..Len(state.traversalOutput) |-> state.traversalOutput[i]]]

\* Map.get: undefined for a missing key
MapGet(m, k) == IF k \in DOMAIN m THEN <<m[k]>> ELSE <<>>

\* mutant: the sizes of the two node-state maps are not compared
statesEqualNoSize(state1, state2) ==
    /\ state1.currentStepIndex = state2.currentStepIndex
    /\ state1.highlightedLine = state2.highlightedLine
    /\ state1.traversalType = state2.traversalType
    /\ state1.isPlaying = state2.isPlaying
    /\ state1.animationSpeed = state2.animationSpeed
    /\ Len(state1.callStack) = Len(state2.callStack)
    /\ Len(state1.traversalOutput) = Len(state2.traversalOutput)
    /\ \A i \in 1..Len(state1.callStack) :
          /\ state1.callStack[i].functionName = state2.callStack[i].functionName
          /\ state1.callStack[i].nodeValue = state2.callStack[i].nodeValue
    /\ \A key \in DOMAIN state1.nodeStates :
          MapGet(state2.nodeStates, key) = <<state1.nodeStates[key]>>
    /\ \A i \in 1..Len(state1.traversalOutput) :
          state1.traversalOutput[i] = state2.traversalOutput[i]

statesEqual(state1, state2) ==
    /\ state1.currentStepIndex = state2.currentStepIndex
    /\ state1.highlightedLine = state2.highlightedLine
    /\ state1.traversalType = state2.traversalType
    /\ state1.isPlaying = state2.isPlaying
    /\ state1.animationSpeed = state2.animationSpeed
    /\ Len(state1.callStack) = Len(state2.callStack)
    /\ Cardinality(DOMAIN state1.nodeStates) = Cardinality(DOMAIN state2.nodeStates)
    /\ Len(state1.traversalOutput) = Len(state2.traversalOutput)
    /\ \A i \in 1..Len(state1.callStack) :
          /\ state1.callStack[i].functionName = state2.callStack[i].functionName
          /\ state1.callStack[i].nodeValue = state2.callStack[i].nodeValue
    /\ \A key \in DOMAIN state1.nodeStates :
          MapGet(state2.nodeStates, key) = <<state1.nodeStates[key]>>
    /\ \A i \in 1..Len(state1.traversalOutput) :
          state1.traversalOutput[i] = state2.traversalOutput[i]

NewStateManager ==
    [state |-> createInitialState, history |-> <<>>,
     subscribers |-> <<>>, delivered |-> <<>>]

getState(m) == cloneState(m.state)

\* the function subscribe(callback) returned: indexOf(callback), then
\* splice(index, 1) when the callback is found
unsubscribe(m, callback) ==
    LET found == {i \in 1..Len(m.subscribers) : m.subscribers[i] = callback}
    IN  IF found = {} THEN m
        ELSE LET index == CHOOSE i \in found : \A j \in found : i <= j
             IN  [m EXCEPT !.subscribers =
                     SubSeq(@, 1, index - 1) \o SubSeq(@, index + 1, Len(@))]

\* callbacks that call their own unsubscribe function when they are notified;
\* every other callback only takes the state
SelfUnsubscribing == {"once"}

\* callback(state)
RunCallback(m, callback, state) ==
    LET m1 == [m EXCEPT !.delivered = Append(@, <<callback, state>>)]
    IN  IF callback \in SelfUnsubscribing THEN unsubscribe(m1, callback) ELSE m1

\* for (const callback of this._subscribers): the array iterator reads
\* element i of the array as it is when the iteration gets there, and ends
\* when i is past the length the array has then
RECURSIVE NotifyFrom(_, _, _)
NotifyFrom(m, i, state) ==
    IF i > Len(m.subscribers) THEN m
    ELSE NotifyFrom(RunCallback(m, m.subscribers[i], state), i + 1, state)

_notifySubscribers(m) == NotifyFrom(m, 1, getState(m))

\* newState is a partial state: a record over a subset of StateFields
setState(m, newState) ==
    LET merged == [f \in StateFields |->
                      IF f \in DOMAIN newState THEN newState[f] ELSE m.state[f]]
        stored == [merged EXCEPT
                      !.callStack = IF "callStack" \in DOMAIN newState
                                    THEN [i \in 1..Len(newState.callStack) |->
                                             CopyFrame(newState.callStack[i])]
                                    ELSE m.state.callStack,
                      !.nodeStates = IF "nodeStates" \in DOMAIN newState
                                     THEN CopyMap(newState.nodeStates)
                                     ELSE m.state.nodeStates,
                      !.traversalOutput = IF "traversalOutput" \in DOMAIN newState
                                          THEN [i \in 1..Len(newState.traversalOutput) |->
                                                   newState.traversalOutput[i]]
                                          ELSE m.state.traversalOutput]
    IN  _notifySubscribers([m EXCEPT !.state = stored])

\* mutant: no snapshot is taken
pushHistoryNothing(m) == m

pushHistory(m) == [m EXCEPT !.history = Append(@, cloneState(m.state))]

\* mutant: the oldest snapshot is handed out
popHistoryResultOldest(m) ==
    IF Len(m.history) = 0 THEN <<>> ELSE <<m.history[1]>>

\* the value popHistory returns: <<>> for null, <<snapshot>> otherwise
popHistoryResult(m) ==
    IF Len(m.history) = 0 THEN <<>> ELSE <<m.history[Len(m.history)]>>

\* mutant: an empty history makes the manager fall back to the initial state
popHistoryEmptyResets(m) ==
    IF Len(m.history) = 0 THEN [m EXCEPT !.state = createInitialState]
    ELSE [m EXCEPT !.history = SubSeq(@, 1, Len(@) - 1)]

\* the manager popHistory leaves behind
popHistory(m) ==
    IF Len(m.history) = 0 THEN m
    ELSE [m EXCEPT !.history = SubSeq(@, 1, Len(@) - 1)]

\* mutant: clearing the history is done by a full reset
clearHistoryResets(m) ==
    _notifySubscribers([m EXCEPT !.state = createInitialState, !.history = <<>>])

clearHistory(m) == [m EXCEPT !.history = <<>>]

getHistoryLength(m) == Len(m.history)

subscribe(m, callback) == [m EXCEPT !.subscribers = Append(@, callback)]

\* mutant: a reset that keeps the history
StateManagerResetKeepsHistory(m) ==
    _notifySubscribers([m EXCEPT !.state = createInitialState])

StateManagerReset(m) ==
    _notifySubscribers([m EXCEPT !.state = createInitialState, !.history = <<>>])

\* mutant: the cursor is moved one too far
setStepIndexOffByOne(m, index) == setState(m, [currentStepIndex |-> index + 1])

setStepIndex(m, index) == setState(m, [currentStepIndex |-> index])

\* mutant: the line is stored 0-indexed
setHighlightedLineZeroBased(m, line) == setState(m, [highlightedLine |-> line - 1])

setHighlightedLine(m, line) == setState(m, [highlightedLine |-> line])

setTraversalType(m, type) == setState(m, [traversalType |-> type])

setPlaying(m, isPlaying) == setState(m, [isPlaying |-> isPlaying])

setAnimationSpeed(m, speed) == setState(m, [animationSpeed |-> speed])

pushCallStack(m, frame) ==
    setState(m, [callStack |-> Append(m.state.callStack, CopyFrame(frame))])

\* mutant: nothing is popped
popCallStackNothing(m) == m

popCallStack(m) ==
    IF Len(m.state.callStack) = 0 THEN m
    ELSE setState(m, [callStack |->
            SubSeq(m.state.callStack, 1, Len(m.state.callStack) - 1)])

MapSet(m, k, v) == [x \in (DOMAIN m) \cup {k} |-> IF x = k THEN v ELSE m[x]]

setNodeState(m, nodeValue, state) ==
    setState(m, [nodeStates |-> MapSet(CopyMap(m.state.nodeStates), nodeValue, state)])

RECURSIVE UnvisitedMap(_)
UnvisitedMap(nodeValues) ==
    IF nodeValues = <<>> THEN <<>>
    ELSE MapSet(UnvisitedMap(SubSeq(nodeValues, 1, Len(nodeValues) - 1)),
                nodeValues[Len(nodeValues)], NodeState.UNVISITED)

resetNodeStates(m, nodeValues) ==
    setState(m, [nodeStates |-> UnvisitedMap(nodeValues)])

\* mutant: the value is put in front of the output
addToOutputPrepend(m, value) ==
    setState(m, [traversalOutput |-> <<value>> \o m.state.traversalOutput])

addToOutput(m, value) ==
    setState(m, [traversalOutput |-> Append(m.state.traversalOutput, value)])

\* ------------------------------------------------------------------------
\* Execution engine (execution-engine.js, EXECUTION ENGINE)
\* An engine is [tree, steps, sm, playIntervalId, timers, nextTimerId, ret]:
\* _tree, _steps, _stateManager, _playIntervalId, the intervals the runtime
\* has scheduled (setInterval adds one, clearInterval removes it), the id the
\* next setInterval returns, and the value the last call returned.
\* ------------------------------------------------------------------------
NewEngine(tree) ==
    [tree |-> IF tree # NullTree THEN tree ELSE createDefaultTree,
     steps |-> <<>>,
     sm |-> NewStateManager,
     playIntervalId |-> <<>>,
     timers |-> {},
     nextTimerId |-> 1,
     ret |-> "undefined"]

_getFunctionName(type) ==
    CASE type = "preorder" -> "preOrder"
      [] type = "postorder" -> "postOrder"
      [] OTHER -> "inOrder"

NodeValuesOf(tree) ==
    LET nodes == getAllNodes(tree) IN [i \in 1..Len(nodes) |-> nodes[i][1]]

\* mutant: the handle is dropped but the interval is not cleared
pauseKeepsInterval(e) ==
    LET cleared == IF e.playIntervalId # <<>>
                   THEN [e EXCEPT !.playIntervalId = <<>>]
                   ELSE e
    IN  [cleared EXCEPT !.sm = setPlaying(@, FALSE), !.ret = "undefined"]

pause(e) ==
    LET cleared == IF e.playIntervalId # <<>>
                   THEN [e EXCEPT !.timers = {t \in @ : t.id # e.playIntervalId[1]},
                                  !.playIntervalId = <<>>]
                   ELSE e
    IN  [cleared EXCEPT !.sm = setPlaying(@, FALSE), !.ret = "undefined"]

\* mutant: play does not look at the handle it already holds
playAgain(e) ==
    LET sm1 == setPlaying(e.sm, TRUE)
        speed == getState(sm1).animationSpeed
    IN  [e EXCEPT !.sm = sm1,
                  !.timers = @ \cup {[id |-> e.nextTimerId, ms |-> speed]},
                  !.playIntervalId = <<e.nextTimerId>>,
                  !.nextTimerId = @ + 1,
                  !.ret = "undefined"]

play(e) ==
    IF e.playIntervalId # <<>> THEN [e EXCEPT !.ret = "undefined"]
    ELSE LET sm1 == setPlaying(e.sm, TRUE)
             speed == getState(sm1).animationSpeed
         IN  [e EXCEPT !.sm = sm1,
                       !.timers = @ \cup {[id |-> e.nextTimerId, ms |-> speed]},
                       !.playIntervalId = <<e.nextTimerId>>,
                       !.nextTimerId = @ + 1,
                       !.ret = "undefined"]

isPlaying(e) == getState(e.sm).isPlaying

_applyStep(e, step, stepIndex) ==
    LET sm1 == setStepIndex(e.sm, stepIndex)
        sm2 == setHighlightedLine(sm1, step.codeLine)
        sm3 == IF step.stackAction = StackAction.PUSH
               THEN pushCallStack(sm2,
                        StackFrame(_getFunctionName(getState(sm2).traversalType),
                                   step.nodeValue, step.codeLine))
               ELSE IF step.stackAction = StackAction.POP
               THEN popCallStack(sm2)
               ELSE sm2
        sm4 == IF step.nodeValue # NullValue
               THEN setNodeState(sm3, step.nodeValue[1], step.nodeState)
               ELSE sm3
        sm5 == IF step.type = StepType.PROCESS_NODE /\ step.nodeValue # NullValue
               THEN addToOutput(sm4, step.nodeValue[1])
               ELSE sm4
    IN  [e EXCEPT !.sm = sm5]

\* mutant: re-initializing with the order already selected keeps the state
initializeSkipsSame(e, type) ==
    LET e1 == pause(e)
        sm1 == IF getState(e1.sm).traversalType = type
               THEN e1.sm ELSE StateManagerReset(e1.sm)
        sm2 == setTraversalType(sm1, type)
        sm3 == resetNodeStates(sm2, NodeValuesOf(e1.tree))
    IN  [e1 EXCEPT !.steps = generateSteps(type, e1.tree),
                   !.sm = sm3,
                   !.ret = "undefined"]

initialize(e, type) ==
    LET e1 == pause(e)
        sm1 == StateManagerReset(e1.sm)
        sm2 == setTraversalType(sm1, type)
        sm3 == resetNodeStates(sm2, NodeValuesOf(e1.tree))
    IN  [e1 EXCEPT !.steps = generateSteps(type, e1.tree),
                   !.sm = sm3,
                   !.ret = "undefined"]

\* mutant: the snapshot is pushed before the end-of-sequence check
nextStepPushesFirst(e) ==
    LET state == getState(e.sm)
        nextIndex == state.currentStepIndex + 1
        e1 == [e EXCEPT !.sm = pushHistory(@)]
    IN  IF nextIndex >= Len(e.steps) THEN [e1 EXCEPT !.ret = "false"]
        ELSE [_applyStep(e1, e1.steps[nextIndex + 1], nextIndex) EXCEPT !.ret = "true"]

nextStep(e) ==
    LET state == getState(e.sm)
        nextIndex == state.currentStepIndex + 1
    IN  IF nextIndex >= Len(e.steps) THEN [e EXCEPT !.ret = "false"]
        ELSE LET e1 == [e EXCEPT !.sm = pushHistory(@)]
                 step == e1.steps[nextIndex + 1]
             IN  [_applyStep(e1, step, nextIndex) EXCEPT !.ret = "true"]

\* mutant: no start check, and an empty history rewinds the cursor
previousStepRewinds(e) ==
    LET previousState == popHistoryResult(e.sm)
        sm1 == popHistory(e.sm)
    IN  IF previousState # <<>>
        THEN [e EXCEPT !.sm = setState(sm1, previousState[1]), !.ret = "true"]
        ELSE [e EXCEPT !.sm = setStepIndex(sm1, -1), !.ret = "false"]

previousStep(e) ==
    LET state == getState(e.sm)
    IN  IF state.currentStepIndex < 0 THEN [e EXCEPT !.ret = "false"]
        ELSE LET previousState == popHistoryResult(e.sm)
                 sm1 == popHistory(e.sm)
             IN  IF previousState # <<>>
                 THEN [e EXCEPT !.sm = setState(sm1, previousState[1]), !.ret = "true"]
                 ELSE [e EXCEPT !.sm = sm1, !.ret = "false"]

reset(e) ==
    LET e1 == pause(e)
        sm1 == StateManagerReset(e1.sm)
        sm2 == resetNodeStates(sm1, NodeValuesOf(e1.tree))
    IN  [e1 EXCEPT !.sm = sm2, !.ret = "undefined"]

\* mutant: the restart is a nextStep-driven one, as the timer callback is
setSpeedSteps(e, ms) ==
    LET e1 == [e EXCEPT !.sm = setAnimationSpeed(@, ms), !.ret = "undefined"]
    IN  IF isPlaying(e1) THEN play(pause(nextStep(e1))) ELSE e1

setSpeed(e, ms) ==
    LET e1 == [e EXCEPT !.sm = setAnimationSpeed(@, ms), !.ret = "undefined"]
    IN  IF isPlaying(e1) THEN play(pause(e1)) ELSE e1

\* mutant: the test of nextStep's result is inverted
TimerCallbackInverted(e) ==
    LET e1 == nextStep(e)
    IN  IF e1.ret = "true" THEN pause(e1) ELSE [e1 EXCEPT !.ret = "undefined"]

\* the callback play() hands to setInterval
TimerCallback(e) ==
    LET e1 == nextStep(e)
    IN  IF e1.ret # "true" THEN pause(e1) ELSE [e1 EXCEPT !.ret = "undefined"]

isAtStart(e) == getState(e.sm).currentStepIndex < 0

isAtEnd(e) == getState(e.sm).currentStepIndex >= Len(e.steps) - 1

getCurrentStepIndex(e) == getState(e.sm).currentStepIndex

getTraversalType(e) == getState(e.sm).traversalType

getTotalSteps(e) == Len(e.steps)

\* ------------------------------------------------------------------------
\* The engine as a state machine.  The variables hold the fields of one
\* engine between two operations; the value a call returns (ret) and the
\* callback invocations it makes (delivered) belong to the call, not to the
\* engine, and are read off the operation's result.
\* ------------------------------------------------------------------------
VARIABLES tree, steps, state, history, subscribers, playIntervalId, timers,
          nextTimerId, initType, before, controls,
          genTree, genType, genSteps, genDone,
          ctor, ctorStep,
          heap, mstate, mhistory, held, passed,
          regs, unsubs,
          rstack, pushCount, popped,
          eqA, eqB, eqResult,
          queryTree, queryResult

engineVars == <<tree, steps, state, history, subscribers, playIntervalId, timers,
                nextTimerId, initType, before, controls>>

genVars == <<genTree, genType, genSteps, genDone>>

\* a call of one of the step constructors and the step it returned
ctorVars == <<ctor, ctorStep>>

\* a state manager laid out in memory: the objects allocated so far, the
\* addresses of _state and of the _history entries, the addresses of the
\* AppState objects a caller holds, and the one last passed to setState
heapVars == <<heap, mstate, mhistory, held, passed>>

\* the registrations made on a state manager: regs[i] is the number of the
\* subscribe call that put subscribers[i] in its place, and unsubs[r] is the
\* callback that the function returned by subscribe call r closes over
subVars == <<regs, unsubs>>

\* a stack renderer: its stack array, the number of frames pushed so far
\* (frame objects are numbered in push order) and the numbers of the
\* frames that pop() has returned
rendVars == <<rstack, pushCount, popped>>

\* a call of statesEqual: its two arguments and what it returned
eqVars == <<eqA, eqB, eqResult>>

\* a tree handed to the tree queries and what they returned
queryVars == <<queryTree, queryResult>>

vars == <<engineVars, genVars, ctorVars, heapVars, subVars, rendVars, eqVars,
          queryVars>>

\* the engine the variables hold, about to run an operation
Eng ==
    [tree |-> tree, steps |-> steps,
     sm |-> [state |-> state, history |-> history,
             subscribers |-> subscribers, delivered |-> <<>>],
     playIntervalId |-> playIntervalId, timers |-> timers,
     nextTimerId |-> nextTimerId, ret |-> "undefined"]

\* before[k + 1] is the AppState that existed immediately before the forward
\* step that produced index k, for the forward steps 0..currentStepIndex now
\* in effect; it is kept by observation, independently of _history
Observe(e) ==
    before' = IF e.sm.state.currentStepIndex > state.currentStepIndex
              THEN Append(before, state)
              ELSE SubSeq(before, 1, e.sm.state.currentStepIndex + 1)

Install(e) ==
    /\ tree' = e.tree
    /\ steps' = e.steps
    /\ state' = e.sm.state
    /\ history' = e.sm.history
    /\ subscribers' = e.sm.subscribers
    /\ playIntervalId' = e.playIntervalId
    /\ timers' = e.timers
    /\ nextTimerId' = e.nextTimerId
    /\ Observe(e)
    /\ UNCHANGED <<genVars, ctorVars, heapVars, subVars, rendVars, eqVars, queryVars>>

\* trees an engine is constructed with
EngineTrees == { TreeNode(1, NullTree, NullTree) }

\* orders an engine is initialized with
TraversalTypes == {"inorder", "preorder", "postorder"}

\* type tags handed to getTraversalGenerator: the three orders and an
\* unrecognized one
GeneratorTypes == TraversalTypes \cup {"bogus"}

SpeedChoices == {250}

Callbacks == {"cb1"}

\* the presentation layer registers its callbacks on the new engine before
\* it drives it
Ready == \A cb \in Callbacks : \E i \in 1..Len(subscribers) : subscribers[i] = cb

EngineIs(e) ==
    /\ tree = e.tree
    /\ steps = e.steps
    /\ state = e.sm.state
    /\ history = e.sm.history
    /\ subscribers = e.sm.subscribers
    /\ playIntervalId = e.playIntervalId
    /\ timers = e.timers
    /\ nextTimerId = e.nextTimerId
    /\ initType = "none"
    /\ before = <<>>
    /\ controls = 0

GenIdle ==
    /\ genTree = NullTree
    /\ genType = "inorder"
    /\ genSteps = <<>>
    /\ genDone = FALSE

CtorIdle ==
    /\ ctor = [name |-> "call", nodeValue |-> NullValue, codeLine |-> 1,
               isNullReturn |-> FALSE]
    /\ ctorStep = <<>>

HeapIdle ==
    /\ heap = <<>>
    /\ mstate = 0
    /\ mhistory = <<>>
    /\ held = {}
    /\ passed = 0

SubIdle ==
    /\ regs = <<>>
    /\ unsubs = <<>>

RendIdle ==
    /\ rstack = <<>>
    /\ pushCount = 0
    /\ popped = {}

EqIdle ==
    /\ eqA = createInitialState
    /\ eqB = createInitialState
    /\ eqResult = "none"

QueryIdle ==
    /\ queryTree = NullTree
    /\ queryResult = <<>>

Init ==
    /\ \E t \in EngineTrees : EngineIs(NewEngine(t))
    /\ GenIdle
    /\ CtorIdle
    /\ HeapIdle
    /\ SubIdle
    /\ RendIdle
    /\ EqIdle
    /\ QueryIdle

Initialize ==
    \E type \in TraversalTypes :
        /\ Ready
        /\ Install(initialize(Eng, type))
        /\ initType' = type
        /\ UNCHANGED controls

NextStep ==
    /\ Ready
    /\ Install(nextStep(Eng))
    /\ UNCHANGED <<initType, controls>>

PreviousStep ==
    /\ Ready
    /\ Install(previousStep(Eng))
    /\ UNCHANGED <<initType, controls>>

Reset ==
    /\ Ready
    /\ Install(reset(Eng))
    /\ UNCHANGED <<initType, controls>>

Play ==
    /\ Ready
    /\ controls < MaxControls
    /\ Install(play(Eng))
    /\ controls' = controls + 1
    /\ UNCHANGED initType

Pause ==
    /\ Ready
    /\ controls < MaxControls
    /\ Install(pause(Eng))
    /\ controls' = controls + 1
    /\ UNCHANGED initType

SetSpeed ==
    \E ms \in SpeedChoices :
        /\ Ready
        /\ controls < MaxControls
        /\ Install(setSpeed(Eng, ms))
        /\ controls' = controls + 1
        /\ UNCHANGED initType

\* a scheduled interval fires
Tick ==
    \E t \in timers :
        /\ Install(TimerCallback(Eng))
        /\ UNCHANGED <<initType, controls>>

Subscribe ==
    \E cb \in Callbacks :
        /\ \A i \in 1..Len(subscribers) : subscribers[i] # cb
        /\ Install([Eng EXCEPT !.sm = subscribe(@, cb)])
        /\ UNCHANGED <<initType, controls>>

Next ==
    \/ Initialize
    \/ NextStep
    \/ PreviousStep
    \/ Reset
    \/ Play
    \/ Pause
    \/ SetSpeed
    \/ Tick
    \/ Subscribe

Spec == Init /\ [][Next]_vars

\* ------------------------------------------------------------------------
\* The generators as a function of (tree, type): the inputs are drawn in
\* InitGen and Generate applies getTraversalGenerator(type).generateSteps
\* ------------------------------------------------------------------------
InitGen ==
    /\ EngineIs(NewEngine(NullTree))
    /\ genTree \in TreesOfDepth(MaxDepth) \cup {createDefaultTree}
    /\ genType \in GeneratorTypes
    /\ genSteps = <<>>
    /\ genDone = FALSE
    /\ CtorIdle
    /\ HeapIdle
    /\ SubIdle
    /\ RendIdle
    /\ EqIdle
    /\ QueryIdle

Generate ==
    /\ ~genDone
    /\ genSteps' = generateSteps(genType, genTree)
    /\ genDone' = TRUE
    /\ UNCHANGED <<genTree, genType, engineVars, ctorVars, heapVars, subVars,
                   rendVars, eqVars, queryVars>>

NextGen == Generate

SpecGen == InitGen /\ [][NextGen]_vars

\* ------------------------------------------------------------------------
\* Helpers of the properties
\* ------------------------------------------------------------------------
\* n nextStep() calls in a row
RECURSIVE NextN(_, _)
NextN(e, n) == IF n = 0 THEN e ELSE nextStep(NextN(e, n - 1))

\* n previousStep() calls in a row
RECURSIVE PrevN(_, _)
PrevN(e, n) == IF n = 0 THEN e ELSE previousStep(PrevN(e, n - 1))

\* PUSH steps minus POP steps among the first k steps of a sequence
RECURSIVE NetPush(_, _)
NetPush(seq, k) ==
    IF k = 0 THEN 0
    ELSE NetPush(seq, k - 1)
         + (IF seq[k].stackAction = StackAction.PUSH THEN 1
            ELSE IF seq[k].stackAction = StackAction.POP THEN -1 ELSE 0)

CountType(seq, type) == Cardinality({i \in 1..Len(seq) : seq[i].type = type})

\* highlightedLine and the node state agree with the step at the cursor
Synchronized(e) ==
    LET st == e.sm.state
        step == e.steps[st.currentStepIndex + 1]
    IN  /\ st.highlightedLine = step.codeLine
        /\ step.nodeValue # NullValue =>
              MapGet(st.nodeStates, step.nodeValue[1]) = <<step.nodeState>>

\* ------------------------------------------------------------------------
\* Properties
\* ------------------------------------------------------------------------

\* C1: undo exactness.  From every reachable engine state and for every
\* N <= MaxUndo, if N nextStep() calls all succeed, then N previousStep()
\* calls after them leave an AppState that statesEqual finds equal to the
\* one before the forward steps (index -1 before the first step included).
C1_UndoExactness ==
    \A n \in 1..MaxUndo :
        LET fwd == NextN(Eng, n)
        IN  fwd.ret = "true" =>
                statesEqual(PrevN(fwd, n).sm.state, state)

C1_Witness ==
    /\ initType # "none"
    /\ state.currentStepIndex = -1
    /\ state.isPlaying
    /\ NextN(Eng, MaxUndo).ret = "true"
    /\ PrevN(NextN(Eng, MaxUndo), MaxUndo).ret = "true"

\* C2: stack balance of a generated sequence.  For every tree (the absent
\* root included) and every order, the generated sequence has as many CALL
\* as RETURN steps, its running PUSH-minus-POP count is never negative over
\* any prefix, and the count is 0 after the last step.
C2_StackBalance ==
    genDone =>
        /\ CountType(genSteps, StepType.CALL) = CountType(genSteps, StepType.RETURN)
        /\ \A k \in 0..Len(genSteps) : NetPush(genSteps, k) >= 0
        /\ NetPush(genSteps, Len(genSteps)) = 0

C2_Witness ==
    /\ genDone
    /\ countNodes(genTree) = 3
    /\ genType = "postorder"
    /\ \E k \in 1..Len(genSteps) : NetPush(genSteps, k) = 3

\* C3: step monotonicity.  In every reachable state whose currentStepIndex
\* is below steps.length - 1, nextStep() returns true and leaves
\* currentStepIndex at exactly the previous value plus 1.
C3_StepMonotonic ==
    state.currentStepIndex < Len(steps) - 1 =>
        LET r == nextStep(Eng)
        IN  /\ r.ret = "true"
            /\ r.sm.state.currentStepIndex = state.currentStepIndex + 1

C3_Witness ==
    /\ state.currentStepIndex >= 1
    /\ state.currentStepIndex < Len(steps) - 1
    /\ before[Len(before)].currentStepIndex = state.currentStepIndex - 1

\* C4: nextStep() at the last index is rejected with zero mutation: it
\* returns false, leaves the AppState, the history, the step sequence and
\* the timer untouched, and invokes no subscriber.
C4_NextStepAtEndRejected ==
    state.currentStepIndex >= Len(steps) - 1 =>
        LET r == nextStep(Eng)
        IN  /\ r.ret = "false"
            /\ r.sm.state = state
            /\ r.sm.history = history
            /\ r.sm.delivered = <<>>
            /\ r.steps = steps
            /\ r.playIntervalId = playIntervalId
            /\ r.timers = timers

C4_Witness ==
    /\ Len(steps) > 0
    /\ state.currentStepIndex = Len(steps) - 1
    /\ subscribers # <<>>
    /\ nextStep(Eng).ret = "false"

\* C5: previousStep() at the start is rejected with zero mutation: when
\* currentStepIndex is below 0, and also when the history has been emptied
\* (clearHistory) under a cursor that is not below 0, it returns false,
\* leaves the AppState and the history unchanged and invokes no subscriber.
C5_PreviousStepAtStartRejected ==
    /\ state.currentStepIndex < 0 =>
          LET r == previousStep(Eng)
          IN  /\ r.ret = "false"
              /\ r.sm.state = state
              /\ r.sm.history = history
              /\ r.sm.delivered = <<>>
    /\ LET emptied == [Eng EXCEPT !.sm = clearHistory(@)]
           r == previousStep(emptied)
       IN  /\ r.ret = "false"
           /\ r.sm.state = state
           /\ r.sm.history = <<>>
           /\ r.sm.delivered = <<>>

C5_Witness ==
    /\ initType # "none"
    /\ state.currentStepIndex < 0
    /\ subscribers # <<>>
    /\ controls > 0
    /\ previousStep(Eng).ret = "false"

\* C6: in every reachable state with currentStepIndex >= 0, whatever mix of
\* initialize, nextStep, previousStep, reset, play, pause, setSpeed and
\* timer ticks led to it, previousStep() returns true, decrements
\* currentStepIndex by exactly 1 and installs exactly the AppState that
\* existed immediately before the corresponding forward step.
C6_PreviousStepRestores ==
    state.currentStepIndex >= 0 =>
        LET r == previousStep(Eng)
        IN  /\ r.ret = "true"
            /\ r.sm.state.currentStepIndex = state.currentStepIndex - 1
            /\ Len(before) = state.currentStepIndex + 1
            /\ r.sm.state = before[Len(before)]

C6_Witness ==
    /\ state.currentStepIndex >= 1
    /\ controls > 0
    /\ before[Len(before)].isPlaying # state.isPlaying
    /\ before[Len(before)].animationSpeed # state.animationSpeed
    /\ previousStep(Eng).ret = "true"

\* C7: synchronization.  After every step applied by nextStep() or by a
\* timer tick, highlightedLine equals the codeLine of
\* steps[currentStepIndex], and when that step carries a node value the
\* node's tracked state equals the step's nodeState.
C7_Synchronized ==
    nextStep(Eng).ret = "true" =>
        /\ Synchronized(nextStep(Eng))
        /\ TimerCallback(Eng).sm.state.currentStepIndex = state.currentStepIndex + 1
        /\ Synchronized(TimerCallback(Eng))

C7_Witness ==
    /\ state.currentStepIndex >= 0
    /\ nextStep(Eng).ret = "true"
    /\ steps[state.currentStepIndex + 2].type = StepType.RETURN
    /\ steps[state.currentStepIndex + 2].nodeValue # NullValue
    /\ timers # {}

\* C8: in every reachable state callStack.length equals the number of PUSH
\* steps minus the number of POP steps among steps[0..currentStepIndex] and
\* is never negative; a successful nextStep() grows it by exactly 1 on a
\* PUSH step, shrinks it by exactly 1 on a POP step and leaves it unchanged
\* on a NONE step.
C8_StackLengthIsNetPush ==
    /\ Len(state.callStack) = NetPush(steps, state.currentStepIndex + 1)
    /\ Len(state.callStack) >= 0
    /\ nextStep(Eng).ret = "true" =>
          LET step == steps[state.currentStepIndex + 2]
              grown == Len(nextStep(Eng).sm.state.callStack)
          IN  /\ step.stackAction = StackAction.PUSH => grown = Len(state.callStack) + 1
              /\ step.stackAction = StackAction.POP => grown = Len(state.callStack) - 1
              /\ step.stackAction = StackAction.NONE => grown = Len(state.callStack)

C8_Witness ==
    /\ Len(state.callStack) = 2
    /\ nextStep(Eng).ret = "true"
    /\ steps[state.currentStepIndex + 2].stackAction = StackAction.POP
    /\ Len(nextStep(Eng).sm.state.callStack) = 1

C10_ReplayAfterReset ==
    initType \in {"inorder", "preorder", "postorder"} =>
        LET r == reset(Eng)
            first == initialize(Eng, initType)
        IN  /\ r.steps = generateSteps(initType, tree)
            /\ getTraversalType(r) = initType
            /\ \A k \in 0..Len(r.steps) :
                  statesEqual(NextN(r, k).sm.state, NextN(first, k).sm.state)

\* ------------------------------------------------------------------------
\* The engine driven by initialize, nextStep and previousStep alone, on the
\* tree the constructor builds by default and on a one-node tree
\* ------------------------------------------------------------------------
\* constructor arguments: no tree (createDefaultTree is used) or a tree
WalkTrees == { NullTree, TreeNode(1, NullTree, NullTree) }

InitWalk ==
    /\ \E t \in WalkTrees : EngineIs(NewEngine(t))
    /\ GenIdle
    /\ CtorIdle
    /\ HeapIdle
    /\ SubIdle
    /\ RendIdle
    /\ EqIdle
    /\ QueryIdle

\* initialize with any type tag, an unrecognized one included
InitializeAny ==
    \E type \in GeneratorTypes :
        /\ Ready
        /\ Install(initialize(Eng, type))
        /\ initType' = type
        /\ UNCHANGED controls

NextWalk ==
    \/ Subscribe
    \/ InitializeAny
    \/ NextStep
    \/ PreviousStep

SpecWalk == InitWalk /\ [][NextWalk]_vars

\* C11: initializing with an unrecognized type such as "bogus" behaves as
\* initializing with "inorder": the step sequence is the same, and the
\* AppState after initialize and after each following nextStep() is
\* statesEqual (stored traversalType and frame function names included) to
\* that of an engine initialized with "inorder".
C11_BogusIsInorder ==
    LET a == initialize(Eng, "bogus")
        b == initialize(Eng, "inorder")
    IN  /\ a.steps = b.steps
        /\ \A k \in 0..Len(b.steps) :
              statesEqual(NextN(a, k).sm.state, NextN(b, k).sm.state)

\* the visit orders of the default tree
DefaultTreeOutput ==
    [inorder |-> <<1, 2, 3, 4, 5, 6, 7>>,
     preorder |-> <<4, 2, 1, 3, 6, 5, 7>>,
     postorder |-> <<1, 3, 2, 5, 7, 6, 4>>]

\* C12: on the default 7-node tree, stepping the engine from
\* initialize(order) to the end of the sequence leaves traversalOutput equal
\* to [1,2,3,4,5,6,7] for inorder, [4,2,1,3,6,5,7] for preorder and
\* [1,3,2,5,7,6,4] for postorder, whatever mix of nextStep() and
\* previousStep() arrives at the last index.
C12_DefaultTreeOutputs ==
    (/\ tree = createDefaultTree
     /\ initType \in TraversalTypes
     /\ state.currentStepIndex = Len(steps) - 1) =>
        state.traversalOutput = DefaultTreeOutput[initType]

C12_Witness ==
    /\ tree = createDefaultTree
    /\ initType = "postorder"
    /\ Len(steps) = 66
    /\ state.currentStepIndex = Len(steps) - 1
    /\ Len(state.traversalOutput) = 7

\* the sequence the generator of a type tag produces, generator by generator
GeneratorSteps(type, root) ==
    IF type = "preorder" THEN PreorderTraverse(root)
    ELSE IF type = "postorder" THEN PostorderTraverse(root)
    ELSE InorderTraverse(root)

\* C13: initialize(order) performs a full reset from every reachable state,
\* also when order equals the current order: afterwards currentStepIndex is
\* -1, the call stack, traversalOutput and history are empty,
\* highlightedLine is 0, every tree node is tracked as UNVISITED,
\* traversalType equals order, and the step sequence is the one the order's
\* generator produces for the tree.
C13_InitializeResets ==
    \A order \in TraversalTypes :
        LET r == initialize(Eng, order)
            nodeValues == NodeValuesOf(tree)
        IN  /\ r.sm.state.currentStepIndex = -1
            /\ r.sm.state.callStack = <<>>
            /\ r.sm.state.traversalOutput = <<>>
            /\ r.sm.history = <<>>
            /\ r.sm.state.highlightedLine = 0
            /\ \A i \in 1..Len(nodeValues) :
                  MapGet(r.sm.state.nodeStates, nodeValues[i]) = <<NodeState.UNVISITED>>
            /\ r.sm.state.traversalType = order
            /\ r.steps = GeneratorSteps(order, tree)

C13_Witness ==
    /\ initType = state.traversalType
    /\ state.currentStepIndex >= 1
    /\ state.callStack # <<>>
    /\ state.traversalOutput # <<>>
    /\ history # <<>>
    /\ timers # {}
    /\ initialize(Eng, initType).sm.history = <<>>

\* C14: for every step of every generated sequence (any tree, any order),
\* stackAction is PUSH if and only if type is CALL, POP if and only if type
\* is RETURN, and NONE for CHECK_NULL, PROCESS_NODE, RECURSE_LEFT and
\* RECURSE_RIGHT.
C14_StackActionByType ==
    genDone =>
        \A i \in 1..Len(genSteps) :
            LET step == genSteps[i]
            IN  /\ step.stackAction = StackAction.PUSH <=> step.type = StepType.CALL
                /\ step.stackAction = StackAction.POP <=> step.type = StepType.RETURN
                /\ step.type \in {StepType.CHECK_NULL, StepType.PROCESS_NODE,
                                  StepType.RECURSE_LEFT, StepType.RECURSE_RIGHT}
                      => step.stackAction = StackAction.NONE

C14_Witness ==
    /\ genDone
    /\ genType = "preorder"
    /\ \A t \in {StepType.CALL, StepType.CHECK_NULL, StepType.PROCESS_NODE,
                 StepType.RECURSE_LEFT, StepType.RECURSE_RIGHT, StepType.RETURN} :
          CountType(genSteps, t) >= 2

\* ------------------------------------------------------------------------
\* The six step constructors as functions of their arguments: the
\* arguments are drawn in InitCtor and Construct applies the constructor
\* ------------------------------------------------------------------------
CtorNames == {"call", "checkNull", "processNode", "recurseLeft",
              "recurseRight", "return"}

\* the lines of a code listing
CodeLines == 1..6

NodeValues == {NullValue} \cup {<<v>> : v \in 1..MaxValue}

\* isNullReturn is a parameter of return alone
CtorInputs ==
    { [name |-> n, nodeValue |-> v, codeLine |-> l, isNullReturn |-> b] :
        n \in CtorNames \ {"return"}, v \in NodeValues, l \in CodeLines,
        b \in {FALSE} }
    \cup
    { [name |-> "return", nodeValue |-> v, codeLine |-> l, isNullReturn |-> b] :
        v \in NodeValues, l \in CodeLines, b \in BOOLEAN }

ApplyCtor(c) ==
    CASE c.name = "call" -> StepCall(c.nodeValue, c.codeLine)
      [] c.name = "checkNull" -> StepCheckNull(c.nodeValue, c.codeLine)
      [] c.name = "processNode" -> StepProcessNode(c.nodeValue, c.codeLine)
      [] c.name = "recurseLeft" -> StepRecurseLeft(c.nodeValue, c.codeLine)
      [] c.name = "recurseRight" -> StepRecurseRight(c.nodeValue, c.codeLine)
      [] c.name = "return" -> StepReturn(c.nodeValue, c.codeLine, c.isNullReturn)

InitCtor ==
    /\ EngineIs(NewEngine(NullTree))
    /\ GenIdle
    /\ ctor \in CtorInputs
    /\ ctorStep = <<>>
    /\ HeapIdle
    /\ SubIdle
    /\ RendIdle
    /\ EqIdle
    /\ QueryIdle

Construct ==
    /\ ctorStep = <<>>
    /\ ctorStep' = <<ApplyCtor(ctor)>>
    /\ UNCHANGED <<ctor, engineVars, genVars, heapVars, subVars, rendVars, eqVars, queryVars>>

NextCtor == Construct

SpecCtor == InitCtor /\ [][NextCtor]_vars

\* C15: each of the six step constructors yields the nodeState of the
\* policy table for every combination of inputs: call and checkNull give
\* PROCESSING with a present nodeValue and UNVISITED with an absent one;
\* processNode gives VISITED; recurseLeft and recurseRight give PROCESSING;
\* return gives FINISHED with a present nodeValue (UNVISITED if
\* isNullReturn) and UNVISITED whenever nodeValue is absent, for
\* isNullReturn true and for isNullReturn false.
C15_NodeStatePolicy ==
    ctorStep # <<>> =>
        LET ns == ctorStep[1].nodeState
            present == ctor.nodeValue # NullValue
        IN  /\ ctor.name \in {"call", "checkNull"} =>
                  ns = (IF present THEN NodeState.PROCESSING ELSE NodeState.UNVISITED)
            /\ ctor.name = "processNode" => ns = NodeState.VISITED
            /\ ctor.name \in {"recurseLeft", "recurseRight"} => ns = NodeState.PROCESSING
            /\ ctor.name = "return" =>
                  ns = (IF ~present \/ ctor.isNullReturn
                        THEN NodeState.UNVISITED ELSE NodeState.FINISHED)

\* the body of a present node, per order: the roles of listing lines 3, 4, 5
OrderBody ==
    [inorder |-> <<"RECURSE_LEFT", "PROCESS_NODE", "RECURSE_RIGHT">>,
     preorder |-> <<"PROCESS_NODE", "RECURSE_LEFT", "RECURSE_RIGHT">>,
     postorder |-> <<"RECURSE_LEFT", "RECURSE_RIGHT", "PROCESS_NODE">>]

\* the reference recursive walk, as <<type, nodeValue, codeLine>> triples:
\* line 1 is the function entry, line 2 the null check (an absent node
\* returns from it), lines 3..5 the body in the order's sequence, line 6
\* the function exit
RECURSIVE ReferenceWalk(_, _)
ReferenceWalk(body, node) ==
    LET v == NodeValueOf(node)
        Part(k) ==
            IF body[k] = "PROCESS_NODE" THEN << <<StepType.PROCESS_NODE, v, 2 + k>> >>
            ELSE IF body[k] = "RECURSE_LEFT"
            THEN << <<StepType.RECURSE_LEFT, v, 2 + k>> >> \o ReferenceWalk(body, node[2])
            ELSE << <<StepType.RECURSE_RIGHT, v, 2 + k>> >> \o ReferenceWalk(body, node[3])
    IN  << <<StepType.CALL, v, 1>>, <<StepType.CHECK_NULL, v, 2>> >>
        \o (IF node = NullTree
            THEN << <<StepType.RETURN, NullValue, 2>> >>
            ELSE Part(1) \o Part(2) \o Part(3) \o << <<StepType.RETURN, v, 6>> >>)

StepTriples(seq) ==
    [i \in 1..Len(seq) |-> <<seq[i].type, seq[i].nodeValue, seq[i].codeLine>>]

\* C16: for any tree and each order, generateSteps equals the reference
\* recursive walk: every invocation (present or absent node) emits CALL then
\* CHECK_NULL; an absent node then emits one null RETURN and nothing else; a
\* present node emits its body in the order's sequence (inorder:
\* recurse-left, left subsequence, process, recurse-right, right
\* subsequence; preorder: process first; postorder: process last) followed
\* by RETURN; and every step's codeLine is the line of the order's listing
\* for that role, always within 1..6.
C16_ReferenceWalk ==
    (genDone /\ genType \in TraversalTypes) =>
        /\ StepTriples(genSteps) = ReferenceWalk(OrderBody[genType], genTree)
        /\ \A i \in 1..Len(genSteps) : genSteps[i].codeLine \in CodeLines

C16_Witness ==
    /\ genDone
    /\ genType = "preorder"
    /\ countNodes(genTree) = 3
    /\ genTree[2] # NullTree
    /\ genTree[3] # NullTree
    /\ genSteps[3].type = StepType.PROCESS_NODE
    /\ genSteps[3].codeLine = 3

\* C17: for a tree with N nodes and any order, the generated sequence
\* contains exactly 2N+1 CALL steps and exactly 2N+1 RETURN steps (N for
\* real nodes, N+1 for absent child slots); on the default tree this is 15
\* of each.
C17_CallReturnCount ==
    genDone =>
        /\ CountType(genSteps, StepType.CALL) = 2 * countNodes(genTree) + 1
        /\ CountType(genSteps, StepType.RETURN) = 2 * countNodes(genTree) + 1
        /\ Cardinality({i \in 1..Len(genSteps) :
                           /\ genSteps[i].type = StepType.RETURN
                           /\ genSteps[i].nodeValue = NullValue})
              = countNodes(genTree) + 1
        /\ genTree = createDefaultTree =>
              /\ CountType(genSteps, StepType.CALL) = 15
              /\ CountType(genSteps, StepType.RETURN) = 15

C17_Witness ==
    /\ genDone
    /\ genTree = createDefaultTree
    /\ genType = "postorder"
    /\ Len(genSteps) = 66
    /\ CountType(genSteps, StepType.CALL) = 15

\* the AppState that the first n steps of a sequence determine, computed
\* from the prefix alone: the frames of the CALL steps not yet matched by a
\* RETURN, the last nodeState written for each node, the line of the last
\* step and the values of the PROCESS_NODE steps
StateAtPrefix(seq, n, type, root) ==
    LET depth == [k \in 0..n |->
                    Cardinality({j \in 1..k : seq[j].stackAction = StackAction.PUSH})
                    - Cardinality({j \in 1..k : seq[j].stackAction = StackAction.POP})]
        open == {j \in 1..n : /\ seq[j].stackAction = StackAction.PUSH
                              /\ \A k \in j..n : depth[k] >= depth[j]}
        Nth(S, k) == CHOOSE j \in S : Cardinality({m \in S : m <= j}) = k
        printed == {j \in 1..n : /\ seq[j].type = StepType.PROCESS_NODE
                                 /\ seq[j].nodeValue # NullValue}
        nodeValues == NodeValuesOf(root)
        writes(v) == {j \in 1..n : seq[j].nodeValue = <<v>>}
        last(S) == CHOOSE j \in S : \A m \in S : m <= j
    IN  [currentStepIndex |-> n - 1,
         callStack |-> [k \in 1..Cardinality(open) |->
                          StackFrame(_getFunctionName(type),
                                     seq[Nth(open, k)].nodeValue,
                                     seq[Nth(open, k)].codeLine)],
         nodeStates |-> [v \in {nodeValues[i] : i \in 1..Len(nodeValues)} |->
                           IF writes(v) = {} THEN NodeState.UNVISITED
                           ELSE seq[last(writes(v))].nodeState],
         highlightedLine |-> IF n = 0 THEN 0 ELSE seq[n].codeLine,
         traversalType |-> type,
         isPlaying |-> FALSE,
         animationSpeed |-> DefaultSpeed,
         traversalOutput |-> [k \in 1..Cardinality(printed) |->
                                seq[Nth(printed, k)].nodeValue[1]]]

\* C18: reproducible state at every index.  After initialize(order), every
\* sequence of nextStep()/previousStep() calls that ends at
\* currentStepIndex i leaves the same AppState (by statesEqual, and field
\* by field): callStack, nodeStates, highlightedLine and traversalOutput
\* are the ones steps[0..i] determine, and traversalOutput is exactly the
\* nodeValues of the PROCESS_NODE steps among steps[0..i], in emission
\* order.
C18_ReproducibleAtIndex ==
    initType # "none" =>
        LET at == StateAtPrefix(steps, state.currentStepIndex + 1, initType, tree)
        IN  /\ statesEqual(state, at)
            /\ state.callStack = at.callStack
            /\ state.nodeStates = at.nodeStates
            /\ state.highlightedLine = at.highlightedLine
            /\ state.traversalOutput = at.traversalOutput

\* a mid-run index of the default tree, where stepping forward and back, and
\* back and forward, both return to the state held
C18_Witness ==
    /\ initType = "postorder"
    /\ tree = createDefaultTree
    /\ state.currentStepIndex >= 20
    /\ Len(state.callStack) >= 2
    /\ Len(state.traversalOutput) >= 2
    /\ statesEqual(previousStep(nextStep(Eng)).sm.state, state)
    /\ statesEqual(nextStep(previousStep(Eng)).sm.state, state)

\* ------------------------------------------------------------------------
\* The state manager on its own, driven through setState, pushHistory and
\* popHistory.  Here before is the record, kept by observation, of the
\* state at the moment of each push that has not been popped.
\* ------------------------------------------------------------------------
\* the manager the variables hold
Mgr == Eng.sm

\* states a caller installs
CallerStates ==
    { [currentStepIndex |-> 0,
       callStack |-> << StackFrame("inOrder", <<1>>, 1) >>,
       nodeStates |-> [v \in {1} |-> NodeState.PROCESSING],
       highlightedLine |-> 1,
       traversalType |-> "inorder",
       isPlaying |-> FALSE,
       animationSpeed |-> DefaultSpeed,
       traversalOutput |-> <<>>],
      [currentStepIndex |-> 3,
       callStack |-> << StackFrame("preOrder", <<1>>, 1),
                        StackFrame("preOrder", NullValue, 4) >>,
       nodeStates |-> [v \in {1} |-> NodeState.VISITED],
       highlightedLine |-> 1,
       traversalType |-> "preorder",
       isPlaying |-> TRUE,
       animationSpeed |-> 250,
       traversalOutput |-> <<1>>],
      [currentStepIndex |-> 11,
       callStack |-> <<>>,
       nodeStates |-> [v \in {1} |-> NodeState.FINISHED],
       highlightedLine |-> 6,
       traversalType |-> "postorder",
       isPlaying |-> FALSE,
       animationSpeed |-> DefaultSpeed,
       traversalOutput |-> <<1>>] }

InstallManager(m) ==
    /\ state' = m.state
    /\ history' = m.history
    /\ subscribers' = m.subscribers
    /\ UNCHANGED <<tree, steps, playIntervalId, timers, nextTimerId, initType,
                   controls, genVars, ctorVars, heapVars, subVars, rendVars, eqVars, queryVars>>

InitHist ==
    /\ EngineIs(NewEngine(NullTree))
    /\ GenIdle
    /\ CtorIdle
    /\ HeapIdle
    /\ SubIdle
    /\ RendIdle
    /\ EqIdle
    /\ QueryIdle

SetState ==
    \E s \in CallerStates :
        /\ InstallManager(setState(Mgr, s))
        /\ UNCHANGED before

PushHistory ==
    /\ Len(history) < MaxHistory
    /\ InstallManager(pushHistory(Mgr))
    /\ before' = Append(before, state)

PopHistory ==
    /\ InstallManager(popHistory(Mgr))
    /\ before' = IF before = <<>> THEN before
                 ELSE SubSeq(before, 1, Len(before) - 1)

ClearHistory ==
    /\ InstallManager(clearHistory(Mgr))
    /\ before' = <<>>

\* StateManager.reset()
ResetManager ==
    /\ InstallManager(StateManagerReset(Mgr))
    /\ before' = <<>>

\* manager.subscribe(callback), once per callback
SubscribeManager ==
    \E cb \in Callbacks :
        /\ \A i \in 1..Len(subscribers) : subscribers[i] # cb
        /\ InstallManager(subscribe(Mgr, cb))
        /\ UNCHANGED before

NextHist ==
    \/ SetState
    \/ PushHistory
    \/ PopHistory
    \/ ClearHistory
    \/ ResetManager
    \/ SubscribeManager

SpecHist == InitHist /\ [][NextHist]_vars

\* n popHistory() calls in a row
RECURSIVE PopN(_, _)
PopN(m, n) == IF n = 0 THEN m ELSE popHistory(PopN(m, n - 1))

\* C19: the history is a LIFO of snapshots.  For any states each installed
\* with setState and followed by pushHistory, the popHistory() calls return
\* them last pushed first, each statesEqual to the state at the moment of
\* its push whatever setState was performed after the push, and null once
\* all are returned; the history length rises by exactly 1 per pushHistory
\* and falls by exactly 1 per successful popHistory; popHistory leaves the
\* current state alone.
C19_HistoryLifo ==
    LET n == Len(before)
    IN  /\ getHistoryLength(Mgr) = n
        /\ \A j \in 1..n :
              LET m == PopN(Mgr, j - 1)
                  r == popHistoryResult(m)
              IN  /\ r # <<>>
                  /\ statesEqual(r[1], before[n - j + 1])
                  /\ getHistoryLength(popHistory(m)) = getHistoryLength(m) - 1
                  /\ popHistory(m).state = state
        /\ popHistoryResult(PopN(Mgr, n)) = <<>>
        /\ getHistoryLength(popHistory(PopN(Mgr, n))) = 0
        /\ getHistoryLength(pushHistory(Mgr)) = n + 1

C19_Witness ==
    /\ Len(history) = MaxHistory
    /\ ~statesEqual(before[1], before[2])
    /\ ~statesEqual(before[2], before[3])
    /\ ~statesEqual(state, before[Len(before)])
    /\ statesEqual(popHistoryResult(popHistory(Mgr))[1], before[Len(before) - 1])

\* ------------------------------------------------------------------------
\* The state manager with object identity.  heap[a] is the object at
\* address a: an AppState object (its callStack, nodeStates and
\* traversalOutput fields hold addresses), an array of frame addresses, a
\* frame, a Map, or an array of values.  A caller reaches the manager's
\* storage only through addresses it was given; writes through an address
\* change the one object at that address, for everyone who holds it.
\* ------------------------------------------------------------------------
\* an object literal with the value s: fresh frames, array, Map, output
\* array and AppState object, in that order
AllocState(h, s) ==
    LET L == Len(h)
        n == Len(s.callStack)
    IN  [heap |-> h \o [i \in 1..n |-> s.callStack[i]]
                    \o << [i \in 1..n |-> L + i],
                          s.nodeStates,
                          s.traversalOutput,
                          [s EXCEPT !.callStack = L + n + 1,
                                    !.nodeStates = L + n + 2,
                                    !.traversalOutput = L + n + 3] >>,
         addr |-> L + n + 4]

\* the value of the AppState object at address a
Deep(h, a) ==
    LET o == h[a]
        frames == h[o.callStack]
    IN  [o EXCEPT !.callStack = [i \in 1..Len(frames) |-> h[frames[i]]],
                  !.nodeStates = h[o.nodeStates],
                  !.traversalOutput = h[o.traversalOutput]]

\* cloneState: every field is read and every object is built anew
\* (frame => ({ ...frame }), map, new Map, [...])
cloneStateRef(h, a) == AllocState(h, Deep(h, a))

\* mutant: the internal object itself is handed out
getStateRefNoClone(h, a) == [heap |-> h, addr |-> a]

getStateRef(h, a) == cloneStateRef(h, a)

\* setState(newState) with newState the object at address na: the three
\* collections are copied when newState has them and the manager's own
\* objects are kept otherwise; the merged AppState object is new.  (No
\* subscriber is registered on this manager, so the clone that
\* _notifySubscribers makes is handed to nobody.)
setStateRef(h, ms, na) ==
    LET cur == h[ms]
        arg == h[na]
        L == Len(h)
        hasStack == "callStack" \in DOMAIN arg
        frames == IF hasStack THEN h[arg.callStack] ELSE <<>>
        n == Len(frames)
        h1 == IF hasStack
              THEN h \o [i \in 1..n |-> h[frames[i]]] \o << [i \in 1..n |-> L + i] >>
              ELSE h
        stackAddr == IF hasStack THEN Len(h1) ELSE cur.callStack
        hasMap == "nodeStates" \in DOMAIN arg
        h2 == IF hasMap THEN Append(h1, CopyMap(h[arg.nodeStates])) ELSE h1
        mapAddr == IF hasMap THEN Len(h2) ELSE cur.nodeStates
        hasOutput == "traversalOutput" \in DOMAIN arg
        h3 == IF hasOutput
              THEN Append(h2, [i \in 1..Len(h[arg.traversalOutput]) |->
                                  h[arg.traversalOutput][i]])
              ELSE h2
        outputAddr == IF hasOutput THEN Len(h3) ELSE cur.traversalOutput
        merged == [f \in StateFields |->
                     IF f = "callStack" THEN stackAddr
                     ELSE IF f = "nodeStates" THEN mapAddr
                     ELSE IF f = "traversalOutput" THEN outputAddr
                     ELSE IF f \in DOMAIN arg THEN arg[f] ELSE cur[f]]
    IN  [heap |-> Append(h3, merged), addr |-> Len(h3) + 1]

\* what the caller of Property 13g writes into a clone
MutatedIndex == 9999
MutatedValue == 999

\* one write through the AppState object at address a
MutateObj(h, a, kind) ==
    LET o == h[a]
    IN  CASE kind = "scalar" ->
                [h EXCEPT ![a].currentStepIndex = MutatedIndex]
          [] kind = "pushFrame" ->
                IF Len(h[o.callStack]) < MaxPush
                THEN [Append(h, [functionName |-> "test",
                                 nodeValue |-> <<MutatedValue>>,
                                 returnAddress |-> <<"test", 0>>])
                        EXCEPT ![o.callStack] = Append(@, Len(h) + 1)]
                ELSE h
          [] kind = "frame" ->
                IF Len(h[o.callStack]) > 0
                THEN [h EXCEPT ![h[o.callStack][1]].nodeValue = <<MutatedValue>>]
                ELSE h
          [] kind = "mapSet" ->
                [h EXCEPT ![o.nodeStates] = MapSet(@, MutatedIndex, NodeState.FINISHED)]
          [] kind = "output" ->
                IF Len(h[o.traversalOutput]) < MaxPush
                THEN [h EXCEPT ![o.traversalOutput] = Append(@, MutatedValue)]
                ELSE h

\* state and history hold what the manager's operations alone make of its
\* state; the caller's writes go to heap only
InstallHeap(h) ==
    /\ Len(h) <= MaxHeap
    /\ heap' = h
    /\ UNCHANGED <<tree, steps, subscribers, playIntervalId, timers,
                   nextTimerId, initType, before, controls, genVars, ctorVars,
                   subVars, rendVars, eqVars, queryVars>>

InitAlias ==
    /\ EngineIs(NewEngine(NullTree))
    /\ GenIdle
    /\ CtorIdle
    /\ LET r == AllocState(<<>>, createInitialState)
       IN  /\ heap = r.heap
           /\ mstate = r.addr
    /\ mhistory = <<>>
    /\ held = {}
    /\ passed = 0
    /\ SubIdle
    /\ RendIdle
    /\ EqIdle
    /\ QueryIdle

\* the state a caller builds
AliasStates ==
    { [currentStepIndex |-> 0,
       callStack |-> << StackFrame("inOrder", <<1>>, 1) >>,
       nodeStates |-> [v \in {1} |-> NodeState.PROCESSING],
       highlightedLine |-> 1,
       traversalType |-> "inorder",
       isPlaying |-> FALSE,
       animationSpeed |-> DefaultSpeed,
       traversalOutput |-> <<>>] }

\* const s = manager.getState()
CallerGetState ==
    LET r == getStateRef(heap, mstate)
    IN  /\ InstallHeap(r.heap)
        /\ held' = held \cup {r.addr}
        /\ UNCHANGED <<state, history, mstate, mhistory, passed>>

\* const s = { ... }
CallerNewState ==
    \E s \in AliasStates :
        LET r == AllocState(heap, s)
        IN  /\ InstallHeap(r.heap)
            /\ held' = held \cup {r.addr}
            /\ UNCHANGED <<state, history, mstate, mhistory, passed>>

\* manager.setState(s)
CallerSetState ==
    \E a \in held :
        LET r == setStateRef(heap, mstate, a)
        IN  /\ InstallHeap(r.heap)
            /\ mstate' = r.addr
            /\ passed' = a
            /\ state' = setState(Mgr, Deep(heap, a)).state
            /\ UNCHANGED <<history, mhistory, held>>

\* manager.pushHistory()
CallerPushHistory ==
    LET r == cloneStateRef(heap, mstate)
    IN  /\ Len(mhistory) < MaxHistory
        /\ InstallHeap(r.heap)
        /\ mhistory' = Append(mhistory, r.addr)
        /\ history' = pushHistory(Mgr).history
        /\ UNCHANGED <<state, mstate, held, passed>>

\* s.currentStepIndex = ...; s.callStack.push(...); s.callStack[0].nodeValue
\* = ...; s.nodeStates.set(...); s.traversalOutput.push(...)
CallerMutate ==
    \E a \in held :
        LET h1 == MutateObj(heap, a, "scalar")
            h2 == MutateObj(h1, a, "pushFrame")
            h3 == MutateObj(h2, a, "frame")
            h4 == MutateObj(h3, a, "mapSet")
            h5 == MutateObj(h4, a, "output")
        IN  /\ h5 # heap
            /\ InstallHeap(h5)
            /\ UNCHANGED <<state, history, mstate, mhistory, held, passed>>

NextAlias ==
    \/ CallerGetState
    \/ CallerNewState
    \/ CallerSetState
    \/ CallerPushHistory
    \/ CallerMutate

SpecAlias == InitAlias /\ [][NextAlias]_vars

\* C20: value isolation at the state manager boundary.  Whatever a caller
\* writes into an AppState it got from getState() (scalar fields,
\* callStack, frames, nodeStates map, traversalOutput) or into an object it
\* passed to setState, the manager's current state and every history entry
\* keep the value the manager's own operations gave them.
C20_ValueIsolation ==
    /\ Deep(heap, mstate) = state
    /\ Len(mhistory) = Len(history)
    /\ \A i \in 1..Len(mhistory) : Deep(heap, mhistory[i]) = history[i]

\* the object last passed to setState has since been written to in all its
\* parts, and a history entry exists
C20_Witness ==
    /\ passed # 0
    /\ mhistory # <<>>
    /\ heap[passed].currentStepIndex = MutatedIndex
    /\ state.currentStepIndex # MutatedIndex
    /\ MutatedIndex \in DOMAIN heap[heap[passed].nodeStates]
    /\ MutatedIndex \notin DOMAIN state.nodeStates
    /\ Len(heap[heap[passed].callStack]) > 0
    /\ heap[heap[heap[passed].callStack][1]].nodeValue = <<MutatedValue>>
    /\ Len(heap[heap[passed].traversalOutput]) > Len(state.traversalOutput)

\* C21: popHistory() on an empty history returns null and changes neither
\* the current state nor the history, also when the history has just been
\* emptied by pops or by reset().
C21_PopOnEmpty ==
    LET Rejected(m) ==
            /\ popHistoryResult(m) = <<>>
            /\ popHistory(m).state = m.state
            /\ popHistory(m).history = <<>>
            /\ popHistory(m).delivered = m.delivered
    IN  /\ history = <<>> => Rejected(Mgr)
        /\ Rejected(PopN(Mgr, Len(history)))
        /\ Rejected(StateManagerReset(Mgr))

C21_Witness ==
    /\ Len(history) = MaxHistory
    /\ subscribers # <<>>
    /\ state \in CallerStates
    /\ PopN(Mgr, MaxHistory).history = <<>>
    /\ popHistoryResult(PopN(Mgr, MaxHistory)) = <<>>
    /\ popHistory(PopN(Mgr, MaxHistory)).state = state

\* C22: the history operations do not touch the live state: pushHistory(),
\* popHistory() and clearHistory() each leave the current AppState
\* unchanged (by statesEqual) and notify no subscriber; clearHistory()
\* leaves the history length at 0.
C22_HistoryOpsFrame ==
    /\ \A r \in {pushHistory(Mgr), popHistory(Mgr), clearHistory(Mgr)} :
          /\ statesEqual(r.state, state)
          /\ r.state = state
          /\ r.delivered = <<>>
          /\ r.subscribers = subscribers
    /\ getHistoryLength(clearHistory(Mgr)) = 0

C22_Witness ==
    /\ Len(history) >= 2
    /\ subscribers # <<>>
    /\ state \in CallerStates
    /\ state.callStack # <<>>
    /\ getHistoryLength(clearHistory(Mgr)) = 0
    /\ getHistoryLength(popHistory(Mgr)) = Len(history) - 1

\* C23: StateManager.reset(), from any state and any history, leaves the
\* current state equal to the canonical initial state (step index -1, empty
\* call stack, empty node-state map, highlightedLine 0, isPlaying false,
\* empty output, default animationSpeed), leaves the history empty, and
\* notifies the subscribers with that state.
C23_ManagerReset ==
    LET r == StateManagerReset(Mgr)
    IN  /\ r.state.currentStepIndex = -1
        /\ r.state.callStack = <<>>
        /\ DOMAIN r.state.nodeStates = {}
        /\ r.state.highlightedLine = 0
        /\ r.state.isPlaying = FALSE
        /\ r.state.traversalOutput = <<>>
        /\ r.state.animationSpeed = 500
        /\ statesEqual(r.state, createInitialState)
        /\ r.history = <<>>
        /\ Len(r.delivered) = Len(subscribers)
        /\ \A i \in 1..Len(subscribers) :
              /\ r.delivered[i][1] = subscribers[i]
              /\ statesEqual(r.delivered[i][2], r.state)

C23_Witness ==
    /\ Len(history) >= 2
    /\ subscribers # <<>>
    /\ state.isPlaying
    /\ state.callStack # <<>>
    /\ state.traversalOutput # <<>>
    /\ state.animationSpeed # 500
    /\ Len(StateManagerReset(Mgr).delivered) = 1

\* ------------------------------------------------------------------------
\* The subscriber list of a state manager: callbacks are registered (the
\* same one more than once too), the functions subscribe returned are
\* called, at any time and any number of times, and setState notifies
\* ------------------------------------------------------------------------
SubCallbacks == {"cb1", "once"}

\* partial states handed to setState
SubStates == { [currentStepIndex |-> 0], [highlightedLine |-> 1] }

\* indexOf: 0 stands for -1
FirstIndexOf(seq, x) ==
    LET found == {i \in 1..Len(seq) : seq[i] = x}
    IN  IF found = {} THEN 0 ELSE CHOOSE i \in found : \A j \in found : i <= j

RemoveAt(seq, k) ==
    IF k = 0 THEN seq ELSE SubSeq(seq, 1, k - 1) \o SubSeq(seq, k + 1, Len(seq))

\* the registrations left in place by a notification: the slots that the
\* self-unsubscribing callbacks splice out of the array while it is iterated
RECURSIVE RegsFrom(_, _, _)
RegsFrom(subs, rg, i) ==
    IF i > Len(subs) THEN rg
    ELSE IF subs[i] \in SelfUnsubscribing
         THEN LET k == FirstIndexOf(subs, subs[i])
              IN  RegsFrom(RemoveAt(subs, k), RemoveAt(rg, k), i + 1)
         ELSE RegsFrom(subs, rg, i + 1)

InstallSub(m) ==
    /\ state' = m.state
    /\ history' = m.history
    /\ subscribers' = m.subscribers
    /\ UNCHANGED <<tree, steps, playIntervalId, timers, nextTimerId, initType,
                   before, controls, genVars, ctorVars, heapVars, rendVars, eqVars, queryVars>>

InitSub ==
    /\ EngineIs(NewEngine(NullTree))
    /\ GenIdle
    /\ CtorIdle
    /\ HeapIdle
    /\ SubIdle
    /\ RendIdle
    /\ EqIdle
    /\ QueryIdle

\* const unsubscribe = manager.subscribe(callback)
SubscribeAny ==
    \E cb \in SubCallbacks :
        /\ Len(unsubs) < MaxSubscribers
        /\ InstallSub(subscribe(Mgr, cb))
        /\ regs' = Append(regs, Len(unsubs) + 1)
        /\ unsubs' = Append(unsubs, cb)

\* unsubscribe(), for any of the functions handed out so far
Unsubscribe ==
    \E r \in 1..Len(unsubs) :
        /\ InstallSub(unsubscribe(Mgr, unsubs[r]))
        /\ regs' = RemoveAt(regs, FirstIndexOf(subscribers, unsubs[r]))
        /\ UNCHANGED unsubs

\* manager.setState(partial)
NotifyingSetState ==
    \E s \in SubStates :
        /\ InstallSub(setState(Mgr, s))
        /\ regs' = RegsFrom(subscribers, regs, 1)
        /\ UNCHANGED unsubs

NextSub ==
    \/ SubscribeAny
    \/ Unsubscribe
    \/ NotifyingSetState

SpecSub == InitSub /\ [][NextSub]_vars

\* C24: every setState call invokes, before it returns, each callback that
\* is registered when the call starts and is not unsubscribed during that
\* notification exactly once, with the state that results from the merge,
\* for any number of subscribers and also when a callback unsubscribes
\* itself while it is being notified.
C24_NotifiesEachOnce ==
    \A s \in SubStates :
        LET r == setState(Mgr, s)
        IN  /\ \A cb \in SubCallbacks \ SelfUnsubscribing :
                  Cardinality({i \in 1..Len(r.delivered) : r.delivered[i][1] = cb})
                      = Cardinality({i \in 1..Len(subscribers) : subscribers[i] = cb})
            /\ \A i \in 1..Len(r.delivered) : statesEqual(r.delivered[i][2], r.state)

\* C25: the function returned by subscribe(callback) removes exactly the
\* registration it was returned for: after calling it that registration is
\* no longer notified, every other registration (a second registration of
\* the same callback included) stays in place, and calling it again has no
\* further effect.
C25_UnsubscribeExact ==
    \A r \in 1..Len(unsubs) :
        LET cb == unsubs[r]
            Others(x) == x # r
            m1 == unsubscribe(Mgr, cb)
            regs1 == RemoveAt(regs, FirstIndexOf(subscribers, cb))
            m2 == unsubscribe(m1, cb)
            regs2 == RemoveAt(regs1, FirstIndexOf(m1.subscribers, cb))
        IN  /\ regs1 = SelectSeq(regs, Others)
            /\ regs2 = regs1
            /\ m2.subscribers = m1.subscribers

\* ------------------------------------------------------------------------
\* The engine under all its operations and the interval callback, as in
\* Spec; the properties of the auto-play timer are checked on this
\* specification
\* ------------------------------------------------------------------------
NextTimer ==
    \/ Subscribe
    \/ Initialize
    \/ Play
    \/ Pause
    \/ SetSpeed
    \/ Tick
    \/ NextStep
    \/ PreviousStep
    \/ Reset

SpecTimer == Init /\ [][NextTimer]_vars

\* C26: an engine never has more than one active auto-play timer.  In every
\* state reachable by any interleaving of play, pause, setSpeed, reset,
\* initialize, stepping and timer ticks at most one interval is scheduled,
\* it is the one whose handle the engine holds, and play() called while a
\* timer is active changes neither the timer nor the AppState.
C26_SingleTimer ==
    /\ Cardinality(timers) <= 1
    /\ playIntervalId = <<>> => timers = {}
    /\ playIntervalId # <<>> =>
          /\ \A t \in timers : t.id = playIntervalId[1]
          /\ timers # {}
          /\ LET r == play(Eng)
             IN  /\ r.timers = timers
                 /\ r.playIntervalId = playIntervalId
                 /\ r.sm.state = state
                 /\ r.sm.delivered = <<>>

C26_Witness ==
    /\ Cardinality(timers) = 1
    /\ nextTimerId >= 3
    /\ state.currentStepIndex >= 1
    /\ play(Eng).timers = timers

C29_SetSpeedKeepsCursor ==
    timers # {} =>
        \A ms \in SpeedChoices :
            LET r == setSpeed(Eng, ms)
                tick == TimerCallback(r)
            IN  /\ r.sm.state = [state EXCEPT !.animationSpeed = ms]
                /\ r.sm.history = history
                /\ r.steps = steps
                /\ Cardinality(r.timers) = 1
                /\ r.playIntervalId # <<>>
                /\ \A t \in r.timers : t.id = r.playIntervalId[1]
                /\ state.isPlaying => \A t \in r.timers : t.ms = ms
                /\ state.currentStepIndex < Len(steps) - 1 =>
                      /\ tick.sm.state.currentStepIndex = state.currentStepIndex + 1
                      /\ Synchronized(tick)
                      /\ tick.sm.state =
                            [TimerCallback(Eng).sm.state EXCEPT !.animationSpeed = ms]

C29_Witness ==
    /\ timers # {}
    /\ state.isPlaying
    /\ state.currentStepIndex >= 1
    /\ state.currentStepIndex < Len(steps) - 1
    /\ \A t \in timers : t.ms = 500
    /\ \A t \in setSpeed(Eng, 250).timers : t.ms = 250
    /\ history # <<>>

\* ------------------------------------------------------------------------
\* Auto-play left alone: the engine is constructed, initialized and stepped
\* to some position, play() is called once, and from then on only the
\* interval fires
\* ------------------------------------------------------------------------
\* controls = 0 before the play() call, 1 after it
SetupInitialize ==
    /\ controls = 0
    /\ InitializeAny

SetupNextStep ==
    /\ controls = 0
    /\ initType # "none"
    /\ NextStep

PlayOnce ==
    /\ Ready
    /\ controls = 0
    /\ initType # "none"
    /\ Install(play(Eng))
    /\ controls' = 1
    /\ UNCHANGED initType

TickPlay ==
    /\ controls = 1
    /\ Tick

NextPlay ==
    \/ Subscribe
    \/ SetupInitialize
    \/ SetupNextStep
    \/ PlayOnce
    \/ TickPlay

\* an interval is scheduled and only its callback can run: in these states
\* the callback always changes the state (it advances the cursor or clears
\* the interval), so this is ENABLED <<TickPlay>>_vars
TickPending ==
    /\ controls = 1
    /\ timers # {}

\* setInterval keeps firing its callback until clearInterval is called:
\* WF_vars(TickPlay), with its enabling condition written as TickPending
TimerFairness == []<>(~TickPending) \/ []<><<TickPlay>>_vars

SpecPlay == InitWalk /\ [][NextPlay]_vars /\ TimerFairness

AutoPlayStopped ==
    /\ timers = {}
    /\ playIntervalId = <<>>
    /\ ~state.isPlaying
    /\ state.currentStepIndex = Len(steps) - 1

\* C28: auto-play terminates.  After play() on an initialized engine, if
\* timer ticks keep firing and no other operation is invoked, each tick
\* applies exactly one step (the cursor moves by one and the playback goes
\* on), the tick on which nextStep() reports failure changes nothing but
\* stops auto-play (timer cleared, isPlaying false), the cursor eventually
\* is at steps.length - 1 with auto-play stopped, and from then on the
\* state no longer changes.
C28_AutoPlayTerminates ==
    /\ [][controls = 1 /\ controls' = 1 =>
            IF timers = {} THEN UNCHANGED engineVars
            ELSE IF state.currentStepIndex < Len(steps) - 1
            THEN /\ state'.currentStepIndex = state.currentStepIndex + 1
                 /\ state' = _applyStep(Eng, steps[state.currentStepIndex + 2],
                                     state.currentStepIndex + 1).sm.state
                 /\ history' = Append(history, state)
                 /\ timers' = timers
                 /\ playIntervalId' = playIntervalId
                 /\ state'.isPlaying
            ELSE /\ state' = [state EXCEPT !.isPlaying = FALSE]
                 /\ history' = history
                 /\ timers' = {}
                 /\ playIntervalId' = <<>>]_vars
    /\ (controls = 1) ~> [](controls = 1 /\ AutoPlayStopped)

C28_Witness ==
    /\ controls = 1
    /\ AutoPlayStopped
    /\ Len(steps) > 3
    /\ Len(history) = Len(steps)
    /\ nextTimerId = 2

\* ------------------------------------------------------------------------
\* StackRenderer without a container element: render() returns at once, so
\* the renderer is its stack array.  A frame object is a record that carries
\* its identity (ref, the number of the push call that handed it over)
\* next to its content.
\* ------------------------------------------------------------------------
NewStackRenderer == [stack |-> <<>>, ret |-> NullValue]

isEmpty(r) == Len(r.stack) = 0

getStackSize(r) == Len(r.stack)

getTopFrame(r) ==
    IF Len(r.stack) = 0 THEN NullValue
    ELSE <<r.stack[Len(r.stack)]>>

push(r, frame) ==
    [r EXCEPT !.stack = Append(@, frame), !.ret = NullValue]

\* mutant: the frame at the bottom is taken, as Array.prototype.shift does
popShift(r) ==
    IF Len(r.stack) = 0 THEN [r EXCEPT !.ret = NullValue]
    ELSE [r EXCEPT !.stack = Tail(@), !.ret = <<r.stack[1]>>]

pop(r) ==
    IF Len(r.stack) = 0 THEN [r EXCEPT !.ret = NullValue]
    ELSE [r EXCEPT !.stack = SubSeq(@, 1, Len(@) - 1),
                   !.ret = <<r.stack[Len(r.stack)]>>]

\* [...this.stack].reverse()
getVisualOrder(r) ==
    [i \in 1..Len(r.stack) |-> r.stack[Len(r.stack) - i + 1]]

isVisualOrderLIFO(r) ==
    IF Len(r.stack) <= 1 THEN TRUE
    ELSE getVisualOrder(r)[1] = r.stack[Len(r.stack)]

Renderer == [stack |-> rstack, ret |-> NullValue]

\* contents of the frames handed to push
FrameChoices ==
    { StackFrame("inorder", <<v>>, 1) : v \in 1..MaxValue }

InitStack ==
    /\ \E t \in EngineTrees : EngineIs(NewEngine(t))
    /\ GenIdle
    /\ CtorIdle
    /\ HeapIdle
    /\ SubIdle
    /\ rstack = NewStackRenderer.stack
    /\ pushCount = 0
    /\ popped = {}
    /\ EqIdle
    /\ QueryIdle

RendererPush ==
    \E f \in FrameChoices :
        /\ pushCount < MaxFrames
        /\ rstack' = push(Renderer, [ref |-> pushCount + 1, frame |-> f]).stack
        /\ pushCount' = pushCount + 1
        /\ UNCHANGED <<popped, engineVars, genVars, ctorVars, heapVars, subVars,
                       eqVars, queryVars>>

\* popped collects the identities of the frames pop has returned
RendererPop ==
    LET r == pop(Renderer)
    IN  /\ rstack' = r.stack
        /\ popped' = IF r.ret = NullValue THEN popped
                     ELSE popped \cup {r.ret[1].ref}
        /\ UNCHANGED <<pushCount, engineVars, genVars, ctorVars, heapVars, subVars,
                       eqVars, queryVars>>

NextStack ==
    \/ RendererPush
    \/ RendererPop

SpecStack == InitStack /\ [][NextStack]_vars

\* the frames pop returns when it is called until the stack is empty
RECURSIVE PopAll(_)
PopAll(r) ==
    IF isEmpty(r) THEN <<>>
    ELSE <<pop(r).ret[1]>> \o PopAll(pop(r))

\* identities of the frames pushed and not yet popped
LiveRefs == { n \in 1..pushCount : n \notin popped }

\* C30: LIFO display of the stack renderer.  After any sequence of push and
\* pop calls, getTopFrame() and the first element of getVisualOrder() are
\* the most recently pushed frame not yet popped, getVisualOrder() is the
\* exact reverse of push order, pop() returns frames in exact
\* reverse-of-push order, and pop() on an empty stack returns null without
\* changing it.
C30_RendererLifo ==
    LET r == Renderer
        visual == getVisualOrder(r)
        n == Len(rstack)
    IN  /\ Len(visual) = Cardinality(LiveRefs)
        /\ \A i \in 1..n : visual[i].ref \in LiveRefs
        /\ \A i \in 1..(n - 1) : visual[i].ref > visual[i + 1].ref
        /\ PopAll(r) = visual
        /\ isVisualOrderLIFO(r)
        /\ getStackSize(r) = n
        /\ IF LiveRefs = {}
           THEN /\ isEmpty(r)
                /\ getTopFrame(r) = NullValue
                /\ pop(r).ret = NullValue
                /\ pop(r).stack = rstack
           ELSE /\ getTopFrame(r) # NullValue
                /\ \A m \in LiveRefs : m <= getTopFrame(r)[1].ref
                /\ visual[1] = getTopFrame(r)[1]
                /\ pop(r).ret = getTopFrame(r)
                /\ Len(pop(r).stack) = n - 1
                /\ \A i \in 1..(n - 1) : pop(r).stack[i] = rstack[i]
                /\ \A f \in FrameChoices :
                      pushCount < MaxFrames =>
                          LET fr == [ref |-> pushCount + 1, frame |-> f]
                          IN  /\ getTopFrame(push(r, fr)) = <<fr>>
                              /\ getVisualOrder(push(r, fr))[1] = fr
                              /\ pop(push(r, fr)).ret = <<fr>>
                              /\ pop(push(r, fr)).stack = rstack

C30_Witness ==
    /\ Len(rstack) >= 2
    /\ popped # {}
    /\ \E m \in popped : m < rstack[1].ref
    /\ \E m \in popped : m > rstack[1].ref /\ m < rstack[Len(rstack)].ref
    /\ rstack[1].frame # rstack[2].frame

\* C31: no partially applied step is observable.  Every AppState delivered
\* to a subscriber while nextStep() runs is a complete, synchronized state:
\* its highlightedLine equals the codeLine of steps[currentStepIndex] and
\* its callStack length equals the PUSH-minus-POP count of
\* steps[0..currentStepIndex]; every state delivered during reset() or
\* initialize(order) already has every tree node tracked as UNVISITED and
\* the final traversalType.
C31_NoPartialState ==
    LET Delivered(r) == { r.sm.delivered[i][2] : i \in 1..Len(r.sm.delivered) }
        Complete(st) ==
            /\ st.currentStepIndex >= 0
            /\ st.highlightedLine = steps[st.currentStepIndex + 1].codeLine
            /\ Len(st.callStack) = NetPush(steps, st.currentStepIndex + 1)
        Fresh(st, type) ==
            /\ \A i \in 1..Len(NodeValuesOf(tree)) :
                  MapGet(st.nodeStates, NodeValuesOf(tree)[i]) =
                      <<NodeState.UNVISITED>>
            /\ st.traversalType = type
    IN  /\ nextStep(Eng).ret = "true" =>
              \A st \in Delivered(nextStep(Eng)) : Complete(st)
        /\ \A st \in Delivered(reset(Eng)) :
              Fresh(st, reset(Eng).sm.state.traversalType)
        /\ \A type \in TraversalTypes :
              \A st \in Delivered(initialize(Eng, type)) : Fresh(st, type)

\* C32: in every engine state reachable by any interleaving of initialize,
\* nextStep, previousStep, reset, play, pause, setSpeed and timer ticks,
\* observed between operations, AppState.isPlaying is true exactly when
\* the engine holds an active timer handle; in particular previousStep(),
\* which installs a snapshot taken earlier, never leaves isPlaying
\* different from the actual playback status.
C32_IsPlayingIsTimer ==
    /\ state.isPlaying <=> playIntervalId # <<>>
    /\ LET r == previousStep(Eng)
       IN  r.sm.state.isPlaying <=> r.playIntervalId # <<>>

\* C33: setSpeed(ms) never starts auto-play.  If the engine holds no active
\* timer when setSpeed is called, it holds no active timer when setSpeed
\* returns, and no interval is scheduled, so that no tick advances the
\* cursor afterwards.
C33_SetSpeedDoesNotStart ==
    playIntervalId = <<>> =>
        \A ms \in SpeedChoices :
            LET r == setSpeed(Eng, ms)
            IN  /\ r.playIntervalId = <<>>
                /\ r.timers = {}

\* C34: in every state reachable through the engine's operations the
\* history length equals currentStepIndex + 1: the history holds exactly
\* one snapshot per forward step not yet undone, and previousStep() never
\* finds the history empty while currentStepIndex >= 0.
C34_HistoryLength ==
    /\ Len(history) = state.currentStepIndex + 1
    /\ state.currentStepIndex >= 0 =>
          /\ history # <<>>
          /\ previousStep(Eng).ret = "true"
          /\ Len(previousStep(Eng).sm.history) =
                 previousStep(Eng).sm.state.currentStepIndex + 1
    /\ nextStep(Eng).ret = "true" =>
          Len(nextStep(Eng).sm.history) = state.currentStepIndex + 2

C34_Witness ==
    /\ state.currentStepIndex >= 1
    /\ Len(history) = state.currentStepIndex + 1
    /\ state.currentStepIndex < Len(steps) - 1
    /\ timers # {}
    /\ ~state.isPlaying

\* ------------------------------------------------------------------------
\* The engine stepped forward and backward over trees of several shapes:
\* every tree of depth <= MaxDepth whose node values are distinct, and the
\* default tree (constructor called without a tree)
\* ------------------------------------------------------------------------
UniqueValues(t) ==
    LET nodes == getAllNodes(t)
    IN  \A i, j \in 1..Len(nodes) : nodes[i][1] = nodes[j][1] => i = j

UniqueTrees == { t \in TreesOfDepth(MaxDepth) : UniqueValues(t) }

InitTrees ==
    /\ \E t \in UniqueTrees : EngineIs(NewEngine(t))
    /\ GenIdle
    /\ CtorIdle
    /\ HeapIdle
    /\ SubIdle
    /\ RendIdle
    /\ EqIdle
    /\ QueryIdle

NextTrees ==
    \/ Subscribe
    \/ Initialize
    \/ NextStep
    \/ PreviousStep

SpecTrees == InitTrees /\ [][NextTrees]_vars

\* frames i..Len(frames) hold the values along a path of the tree that
\* starts at node and goes from each node to its left or right child, an
\* absent child (null) included
RECURSIVE ChainFits(_, _, _)
ChainFits(node, frames, i) ==
    /\ frames[i].nodeValue = NodeValueOf(node)
    /\ i < Len(frames) =>
          /\ node # NullTree
          /\ \/ ChainFits(node[2], frames, i + 1)
             \/ ChainFits(node[3], frames, i + 1)

\* C35: in every state reached by forward and backward stepping, the
\* callStack read bottom-to-top is the chain of currently active simulated
\* calls: the bottom frame holds the root's value, each higher frame holds
\* the value of the left or right child (or null for an absent child) of
\* the node in the frame below, the frame pushed by a CALL step carries
\* that step's nodeValue, and each RETURN step removes the frame created by
\* its matching CALL (same nodeValue); other steps leave the stack alone.
C35_ActiveCallChain ==
    initType # "none" =>
        LET cs == state.callStack
            r == nextStep(Eng)
            cs2 == r.sm.state.callStack
            step == steps[state.currentStepIndex + 2]
        IN  /\ cs # <<>> => ChainFits(tree, cs, 1)
            /\ r.ret = "true" =>
                  /\ step.type = StepType.CALL =>
                        /\ cs2 = Append(cs, cs2[Len(cs2)])
                        /\ cs2[Len(cs2)].nodeValue = step.nodeValue
                  /\ step.type = StepType.RETURN =>
                        /\ cs # <<>>
                        /\ cs2 = SubSeq(cs, 1, Len(cs) - 1)
                        /\ cs[Len(cs)].nodeValue = step.nodeValue
                  /\ step.type \notin {StepType.CALL, StepType.RETURN} =>
                        cs2 = cs

C35_Witness ==
    /\ initType = "postorder"
    /\ tree # createDefaultTree
    /\ Len(state.callStack) = 3
    /\ state.callStack[3].nodeValue = NullValue
    /\ state.callStack[2].nodeValue # NullValue
    /\ Len(history) > Len(state.callStack) + 6
    /\ steps[state.currentStepIndex + 2].type = StepType.RETURN

\* position of a node state in UNVISITED, PROCESSING, VISITED, FINISHED
StateRank(tracked) ==
    IF tracked = <<NodeState.UNVISITED>> THEN 0
    ELSE IF tracked = <<NodeState.PROCESSING>> THEN 1
    ELSE IF tracked = <<NodeState.VISITED>> THEN 2
    ELSE IF tracked = <<NodeState.FINISHED>> THEN 3
    ELSE -1

TreeValues == { NodeValuesOf(tree)[i] : i \in 1..Len(NodeValuesOf(tree)) }

\* C36: during forward stepping a node's tracked state only advances along
\* UNVISITED, PROCESSING, VISITED, FINISHED: for each of the three orders,
\* once a PROCESS_NODE step has set a node to VISITED, no later step of the
\* sequence sets that node back to PROCESSING or UNVISITED.
C36_OnlyAdvances ==
    (initType # "none" /\ nextStep(Eng).ret = "true") =>
        \A v \in TreeValues :
            StateRank(MapGet(nextStep(Eng).sm.state.nodeStates, v)) >=
                StateRank(MapGet(state.nodeStates, v))

\* C36 as amended: during forward stepping a tracked node never returns to
\* UNVISITED and never leaves FINISHED; in postorder its state only
\* advances; in inorder and preorder the only step back is from VISITED to
\* PROCESSING, made by a RECURSE_LEFT or RECURSE_RIGHT step of that node
\* that follows its PROCESS_NODE step.
C36_Amended ==
    (initType # "none" /\ nextStep(Eng).ret = "true") =>
        LET step == steps[state.currentStepIndex + 2]
        IN  \A v \in TreeValues :
                LET old == MapGet(state.nodeStates, v)
                    new == MapGet(nextStep(Eng).sm.state.nodeStates, v)
                IN  /\ StateRank(old) >= 0
                    /\ StateRank(new) >= 0
                    /\ StateRank(old) > 0 => StateRank(new) > 0
                    /\ StateRank(old) = 3 => StateRank(new) = 3
                    /\ initType = "postorder" => StateRank(new) >= StateRank(old)
                    /\ StateRank(new) < StateRank(old) =>
                          /\ initType \in {"inorder", "preorder"}
                          /\ old = <<NodeState.VISITED>>
                          /\ new = <<NodeState.PROCESSING>>
                          /\ step.type \in {StepType.RECURSE_LEFT,
                                            StepType.RECURSE_RIGHT}
                          /\ step.nodeValue = <<v>>
                    /\ (initType = "postorder" /\ old = <<NodeState.VISITED>>
                        /\ step.nodeValue = <<v>>) =>
                          new = <<NodeState.FINISHED>>

C36_Witness ==
    /\ initType = "inorder"
    /\ Len(NodeValuesOf(tree)) >= 2
    /\ nextStep(Eng).ret = "true"
    /\ steps[state.currentStepIndex + 2].type = StepType.RECURSE_RIGHT
    /\ \E v \in TreeValues :
          /\ MapGet(state.nodeStates, v) = <<NodeState.VISITED>>
          /\ MapGet(nextStep(Eng).sm.state.nodeStates, v) = <<NodeState.PROCESSING>>
    /\ \E v \in TreeValues : MapGet(state.nodeStates, v) = <<NodeState.FINISHED>>

\* C37: when the last step of the sequence has been applied (any tree with
\* unique values, any order), the call stack is empty, every tree node's
\* tracked state is FINISHED, and traversalOutput contains every node value
\* exactly once.
C37_FinalState ==
    (initType # "none" /\ state.currentStepIndex = Len(steps) - 1) =>
        LET output == state.traversalOutput
        IN  /\ state.callStack = <<>>
            /\ \A v \in TreeValues :
                  /\ MapGet(state.nodeStates, v) = <<NodeState.FINISHED>>
                  /\ Cardinality({i \in 1..Len(output) : output[i] = v}) = 1
            /\ \A i \in 1..Len(output) : output[i] \in TreeValues
            /\ DOMAIN state.nodeStates = TreeValues
            /\ nextStep(Eng).ret = "false"

C37_Witness ==
    /\ initType = "preorder"
    /\ tree # createDefaultTree
    /\ Len(NodeValuesOf(tree)) >= 2
    /\ state.currentStepIndex = Len(steps) - 1
    /\ Len(state.traversalOutput) = Len(NodeValuesOf(tree))

\* _notifySubscribers with object identity: const state = this.getState()
\* makes one clone, and callback(state) hands that one object to each of
\* the n subscribers in turn
_notifySubscribersRef(h, ms, n) ==
    LET r == getStateRef(h, ms)
    IN  [heap |-> r.heap, delivered |-> [i \in 1..n |-> r.addr]]

\* a subscriber writes to every part of the AppState object it was handed
MutateAll(h, a) ==
    MutateObj(MutateObj(MutateObj(MutateObj(MutateObj(h, a, "scalar"),
        a, "pushFrame"), a, "frame"), a, "mapSet"), a, "output")

\* C38: a subscriber that mutates the AppState object delivered to it
\* cannot change the manager's live state, any history entry, or the state
\* that any other subscriber receives in the same notification: each
\* subscriber is delivered a value-isolated copy.  (Two subscribers; the
\* first one mutates what it is handed before the second one is called.)
C38_SubscriberIsolation ==
    LET n == _notifySubscribersRef(heap, mstate, 2)
        h1 == MutateAll(n.heap, n.delivered[1])
    IN  /\ Deep(n.heap, n.delivered[1]) = state
        /\ Deep(h1, mstate) = state
        /\ \A i \in 1..Len(mhistory) : Deep(h1, mhistory[i]) = history[i]
        /\ Deep(h1, n.delivered[2]) = state

\* ------------------------------------------------------------------------
\* statesEqual applied to pairs of AppStates: a state in the middle of a
\* traversal and the states that differ from it in one respect
\* ------------------------------------------------------------------------
EqBase ==
    [currentStepIndex |-> 3,
     callStack |-> << StackFrame("inorder", <<1>>, 1),
                      StackFrame("inorder", <<2>>, 1) >>,
     nodeStates |-> (1 :> NodeState.VISITED) @@ (2 :> NodeState.PROCESSING),
     highlightedLine |-> 2,
     traversalType |-> "inorder",
     isPlaying |-> FALSE,
     animationSpeed |-> DefaultSpeed,
     traversalOutput |-> <<1, 2>>]

EqStates ==
    { EqBase,
      createInitialState,
      [EqBase EXCEPT !.currentStepIndex = 4],
      [EqBase EXCEPT !.highlightedLine = 3],
      [EqBase EXCEPT !.traversalType = "preorder"],
      [EqBase EXCEPT !.isPlaying = TRUE],
      [EqBase EXCEPT !.animationSpeed = 250],
      [EqBase EXCEPT !.callStack[2].returnAddress = <<"line ", 3>>],
      [EqBase EXCEPT !.callStack[2].functionName = "preorder"],
      [EqBase EXCEPT !.callStack[2].nodeValue = NullValue],
      [EqBase EXCEPT !.callStack[1].nodeValue = <<2>>],
      [EqBase EXCEPT !.callStack = <<@[2], @[1]>>],
      [EqBase EXCEPT !.callStack = <<@[1]>>],
      [EqBase EXCEPT !.callStack = Append(@, StackFrame("inorder", NullValue, 1))],
      [EqBase EXCEPT !.nodeStates[2] = NodeState.FINISHED],
      [EqBase EXCEPT !.nodeStates = (1 :> NodeState.VISITED)],
      [EqBase EXCEPT !.nodeStates = (1 :> NodeState.VISITED) @@ (3 :> NodeState.PROCESSING)],
      [EqBase EXCEPT !.nodeStates = @ @@ (3 :> NodeState.UNVISITED)],
      [EqBase EXCEPT !.traversalOutput = <<2, 1>>],
      [EqBase EXCEPT !.traversalOutput = <<1>>],
      [EqBase EXCEPT !.traversalOutput = <<1, 2, 3>>] }

InitEq ==
    /\ \E t \in EngineTrees : EngineIs(NewEngine(t))
    /\ GenIdle
    /\ CtorIdle
    /\ HeapIdle
    /\ SubIdle
    /\ RendIdle
    /\ QueryIdle
    /\ eqA \in EqStates
    /\ eqB \in EqStates
    /\ eqResult = "none"

ApplyStatesEqual ==
    /\ eqResult = "none"
    /\ eqResult' = IF statesEqual(eqA, eqB) THEN "true" ELSE "false"
    /\ UNCHANGED <<eqA, eqB, engineVars, genVars, ctorVars, heapVars, subVars,
                   rendVars, queryVars>>

NextEq == ApplyStatesEqual

SpecEq == InitEq /\ [][NextEq]_vars

\* the two states agree on every compared part
Agree(a, b) ==
    /\ a.currentStepIndex = b.currentStepIndex
    /\ a.highlightedLine = b.highlightedLine
    /\ a.traversalType = b.traversalType
    /\ a.isPlaying = b.isPlaying
    /\ a.animationSpeed = b.animationSpeed
    /\ [i \in 1..Len(a.callStack) |->
           <<a.callStack[i].functionName, a.callStack[i].nodeValue>>]
         = [i \in 1..Len(b.callStack) |->
               <<b.callStack[i].functionName, b.callStack[i].nodeValue>>]
    /\ { <<k, a.nodeStates[k]>> : k \in DOMAIN a.nodeStates }
         = { <<k, b.nodeStates[k]>> : k \in DOMAIN b.nodeStates }
    /\ a.traversalOutput = b.traversalOutput

\* C39: statesEqual(a, b) returns true exactly when a and b agree on
\* currentStepIndex, highlightedLine, traversalType, isPlaying,
\* animationSpeed, on the call stack pairwise by functionName and nodeValue
\* (returnAddress is ignored), on the node-state map as a set of key/value
\* pairs, and on traversalOutput position by position; it is reflexive and
\* symmetric, and statesEqual(s, copy of s) holds for every state s.
C39_StatesEqual ==
    eqResult # "none" =>
        /\ eqResult = "true" <=> Agree(eqA, eqB)
        /\ statesEqual(eqB, eqA) <=> eqResult = "true"
        /\ statesEqual(eqA, eqA)
        /\ statesEqual(eqA, cloneState(eqA))
        /\ statesEqual(cloneState(eqB), eqB)

C39_Witness ==
    /\ eqResult = "true"
    /\ eqA # eqB
    /\ eqA.nodeStates = eqB.nodeStates
    /\ Len(eqA.callStack) = 2

\* ------------------------------------------------------------------------
\* The tree queries applied to trees of depth <= MaxDepth, the absent tree
\* included, and to the default tree
\* ------------------------------------------------------------------------
QueryTrees == TreesOfDepth(MaxDepth) \cup {createDefaultTree}

InitQuery ==
    /\ \E t \in EngineTrees : EngineIs(NewEngine(t))
    /\ GenIdle
    /\ CtorIdle
    /\ HeapIdle
    /\ SubIdle
    /\ RendIdle
    /\ EqIdle
    /\ queryTree \in QueryTrees
    /\ queryResult = <<>>

Answer(query, arg, value) ==
    /\ queryResult = <<>>
    /\ queryResult' = [query |-> query, arg |-> arg, value |-> value]
    /\ UNCHANGED <<queryTree, engineVars, genVars, ctorVars, heapVars, subVars,
                   rendVars, eqVars>>

QueryAllNodes == Answer("getAllNodes", 0, getAllNodes(queryTree))

QueryAllEdges == Answer("getAllEdges", 0, getAllEdges(queryTree))

QueryCountNodes == Answer("countNodes", 0, countNodes(queryTree))

QueryTreeDepth == Answer("getTreeDepth", 0, getTreeDepth(queryTree))

QueryFindNode ==
    \E v \in 1..MaxValue : Answer("findNode", v, findNode(queryTree, v))

NextQuery ==
    \/ QueryAllNodes
    \/ QueryAllEdges
    \/ QueryCountNodes
    \/ QueryTreeDepth
    \/ QueryFindNode

SpecQuery == InitQuery /\ [][NextQuery]_vars

\* the node at the end of a path, NullTree when the path leaves the tree
RECURSIVE NodeAt(_, _)
NodeAt(root, path) ==
    IF path = <<>> \/ root = NullTree THEN root
    ELSE NodeAt(IF Head(path) = "left" THEN root[2] ELSE root[3], Tail(path))

\* the paths of the nodes of a tree, in preorder
RECURSIVE PreorderPaths(_, _)
PreorderPaths(node, path) ==
    IF node = NullTree THEN <<>>
    ELSE <<path>> \o PreorderPaths(node[2], Append(path, "left"))
                  \o PreorderPaths(node[3], Append(path, "right"))

\* C40: getAllEdges returns exactly one {parent, child} pair per existing
\* child link, in preorder discovery order, so a tree with N >= 1 nodes
\* yields exactly N-1 edges; with an absent root getAllNodes and
\* getAllEdges return empty lists, countNodes and getTreeDepth return 0,
\* and findNode returns null, none of them failing.
C40_TreeQueries ==
    queryResult # <<>> =>
        LET t == queryTree
            value == queryResult.value
            paths == PreorderPaths(t, <<>>)
            N == countNodes(t)
        IN  /\ queryResult.query = "getAllEdges" =>
                  /\ N >= 1 => Len(value) = N - 1
                  /\ Len(paths) = N
                  /\ \A i \in 1..Len(value) :
                        /\ value[i].child = paths[i + 1]
                        /\ value[i].parent =
                              SubSeq(value[i].child, 1, Len(value[i].child) - 1)
                        /\ NodeAt(t, value[i].child) # NullTree
                        /\ NodeAt(t, value[i].parent) # NullTree
                  /\ \A i, j \in 1..Len(value) : value[i] = value[j] => i = j
            /\ t = NullTree =>
                  /\ queryResult.query = "getAllNodes" => value = <<>>
                  /\ queryResult.query = "getAllEdges" => value = <<>>
                  /\ queryResult.query = "countNodes" => value = 0
                  /\ queryResult.query = "getTreeDepth" => value = 0
                  /\ queryResult.query = "findNode" => value = NullTree

C40_Witness ==
    /\ queryResult # <<>>
    /\ queryResult.query = "getAllEdges"
    /\ queryTree # createDefaultTree
    /\ Len(queryResult.value) = 2
    /\ queryResult.value[2].child = <<"right">>

====
